---- MODULE Spec2Model ----
(***************************************************************************)
(* Elemental: the distribution and redistribution engine of                *)
(* GeneralDistMatrix<T,U,V> (src/src/core/DistMatrix/General.cpp).          *)
(*                                                                         *)
(* One distributed matrix, *this, lives on a process grid.  Every process  *)
(* of the grid runs the same call with the same arguments (SPMD), so one   *)
(* step of the model is one call of an entry point executed by all the     *)
(* processes of the grid, each on its own local matrix.                    *)
(***************************************************************************)
EXTENDS Integers, FiniteSets, Sequences, TLC

\* ------------------------------------------------------------------ bounds
MaxGridHeight == 2
MaxGridWidth == 3
MaxHeight == 3
MaxWidth == 3
MaxAlpha == 2
MaxOps == 2
MaxDiagGridHeight == 2
MaxDiagGridWidth == 4
MaxDiagDim == 7
MaxGatherDim == 5
MaxCollectiveProcs == 4
MaxTikDim == 2
MaxTikRHS == 2
MaxTikGamma == 2
MaxTikSol == 2
MaxTikProcs == 2
MaxENRows == 2
MaxENCols == 2
MaxLambda == 2
MaxENSol == 1
MaxENProcs == 2
MaxLLLDim == 3
MaxLLLEntry == 2
MaxGarbage == 2

\* --------------------------------------------------------- integer helpers
Max(a, b) == IF a >= b THEN a ELSE b

Min(a, b) == IF a <= b THEN a ELSE b

\* C++ integer division truncates toward zero
CDiv(a, b) == IF a >= 0 THEN a \div b ELSE -((-a) \div b)

\* C++ remainder has the sign of the dividend
CMod(a, b) == a - b * CDiv(a, b)

RECURSIVE GCD(_, _)
GCD(a, b) == IF b = 0 THEN a ELSE GCD(b, a % b)

LCM(a, b) == (a * b) \div GCD(a, b)

RECURSIVE SumOver(_, _, _)
\* sum of f[k] for k in lo .. hi-1
SumOver(f, lo, hi) == IF lo >= hi THEN 0 ELSE f[lo] + SumOver(f, lo + 1, hi)

\* ------------------------------------------------------- index arithmetic
\* Shift_( rank, alignment, stride )
Shift_(rank, align, stride) == (rank + stride - align) % stride

\* Length_( n, shift, stride ): ceil((n-shift)/stride), floored at 0
Length_(n, shift, stride) == IF n > shift THEN ((n - shift - 1) \div stride) + 1 ELSE 0

\* MaxLength( n, stride )
MaxLength(n, stride) == IF n > 0 THEN ((n - 1) \div stride) + 1 ELSE 0

\* ------------------------------------------------------------ process grid
\* A grid instance is identified by its shape; its processes are named by
\* their column-major (VC) rank.
Grids == [h : 1..MaxGridHeight, w : 1..MaxGridWidth]

GridSize(g) == g.h * g.w

Procs(g) == 0 .. (GridSize(g) - 1)

GridRow(g, p) == p % g.h

GridCol(g, p) == p \div g.h

VCRank(g, p) == p

VRRank(g, p) == GridCol(g, p) + GridRow(g, p) * g.w

\* Grid::DiagPath
DiagPath(g, p) == (GridCol(g, p) + g.h - GridRow(g, p)) % GCD(g.h, g.w)

\* Grid::DiagPathRank: the position of p on its diagonal path, which starts
\* at grid coordinate (0, DiagPath) and steps by (+1,+1) cyclically
DiagPathRank(g, p) ==
    CHOOSE t \in 0 .. (LCM(g.h, g.w) - 1) :
        /\ t % g.h = GridRow(g, p)
        /\ (DiagPath(g, p) + t) % g.w = GridCol(g, p)

\* ------------------------------------------------------ distribution kinds
Dist == {"MC", "MD", "MR", "VC", "VR", "STAR", "CIRC"}

\* the instantiated pairs [U,V] (PROTO)
DistPairs ==
    { <<"CIRC", "CIRC">>, <<"MC", "MR">>, <<"MC", "STAR">>, <<"MD", "STAR">>,
      <<"MR", "MC">>, <<"MR", "STAR">>, <<"STAR", "MC">>, <<"STAR", "MD">>,
      <<"STAR", "MR">>, <<"STAR", "STAR">>, <<"STAR", "VC">>, <<"STAR", "VR">>,
      <<"VC", "STAR">>, <<"VR", "STAR">> }

\* Collect<U>(): the kind that gathers U
Collect(U) == IF U = "CIRC" THEN "CIRC" ELSE "STAR"

\* Partial<U>(): the partial relative of U, over one grid dimension
Partial(U) == CASE U = "VC" -> "MC" [] U = "VR" -> "MR" [] OTHER -> U

\* the scattered relative of U: the finer kind whose alignment reduces to U's
Scatter(U) == CASE U = "MC" -> "VC" [] U = "MR" -> "VR" [] OTHER -> U

\* number of ranks a kind distributes over
Stride(U, g) ==
    CASE U = "MC" -> g.h
      [] U = "MR" -> g.w
      [] U = "VC" -> GridSize(g)
      [] U = "VR" -> GridSize(g)
      [] U = "MD" -> LCM(g.h, g.w)
      [] OTHER -> 1

\* rank of process p along a kind
Rank(U, g, p) ==
    CASE U = "MC" -> GridRow(g, p)
      [] U = "MR" -> GridCol(g, p)
      [] U = "VC" -> VCRank(g, p)
      [] U = "VR" -> VRRank(g, p)
      [] U = "MD" -> DiagPathRank(g, p)
      [] OTHER -> 0

HasKind(UV, K) == UV[1] = K \/ UV[2] = K

\* size and rank of the cross communicator (the candidates for the root)
CrossSizeOf(UV, g) ==
    CASE HasKind(UV, "CIRC") -> GridSize(g)
      [] HasKind(UV, "MD") -> GCD(g.h, g.w)
      [] OTHER -> 1

CrossRankOf(UV, g, p) ==
    CASE HasKind(UV, "CIRC") -> VCRank(g, p)
      [] HasKind(UV, "MD") -> DiagPath(g, p)
      [] OTHER -> 0

\* rank in the redundant communicator (the processes holding replicas)
RedundantRankOf(UV, g, p) ==
    CASE UV = <<"MC", "STAR">> \/ UV = <<"STAR", "MC">> -> GridCol(g, p)
      [] UV = <<"MR", "STAR">> \/ UV = <<"STAR", "MR">> -> GridRow(g, p)
      [] UV = <<"STAR", "STAR">> -> VCRank(g, p)
      [] OTHER -> 0

\* ----------------------------------------------------------- local matrices
\* El::Matrix<T>: a height x width buffer; e[<<i,j>>] is entry (i,j)
Idx(h, w) == (0 .. (h - 1)) \X (0 .. (w - 1))

EmptyLocal == [h |-> 0, w |-> 0, e |-> [ij \in Idx(0, 0) |-> 0]]

\* a code for the global position (i,j), distinct for distinct positions
EncStride == (IF MaxHeight >= MaxDiagDim THEN MaxHeight ELSE MaxDiagDim) + 2

Enc(i, j) == 1 + i + EncStride * j

\* the content a buffer holds when nothing has been stored in it yet
FillSeeds == {0, 1}

FillVal(s, i, j) == s * Enc(i, j)

\* Zeros( A, m, n )
Zeros(m, n) == [h |-> m, w |-> n, e |-> [ij \in Idx(m, n) |-> 0]]

\* ---------------------------------------------------- AbstractDistMatrix
\* A distributed matrix is a record: its template kinds, its descriptor, its
\* global size and the local matrix of every process of its grid.
ColStride(M) == Stride(M.dist[1], M.grid)

RowStride(M) == Stride(M.dist[2], M.grid)

ColRank(M, p) == Rank(M.dist[1], M.grid, p)

RowRank(M, p) == Rank(M.dist[2], M.grid, p)

ColShift(M, p) == Shift_(ColRank(M, p), M.colAlign, ColStride(M))

RowShift(M, p) == Shift_(RowRank(M, p), M.rowAlign, RowStride(M))

CrossRank(M, p) == CrossRankOf(M.dist, M.grid, p)

CrossSize(M) == CrossSizeOf(M.dist, M.grid)

Participating(M, p) == CrossRank(M, p) = M.root

\* the members of the communicator the matrix is distributed over
DistComm(M, p) ==
    { q \in Procs(M.grid) :
        /\ CrossRank(M, q) = CrossRank(M, p)
        /\ RedundantRankOf(M.dist, M.grid, q) = RedundantRankOf(M.dist, M.grid, p) }

DistRank(M, p) == ColRank(M, p) + RowRank(M, p) * ColStride(M)

\* the local dimensions the descriptor calls for on process p
LocalHeightOf(M, h, p) == Length_(h, ColShift(M, p), ColStride(M))

LocalWidthOf(M, w, p) == Length_(w, RowShift(M, p), RowStride(M))

\* global indices of a local entry
GlobalRow(M, p, iLoc) == ColShift(M, p) + iLoc * ColStride(M)

GlobalCol(M, p, jLoc) == RowShift(M, p) + jLoc * RowStride(M)

\* DistMatrix<T,U,V>( grid ): a 0 x 0 matrix, zero alignments, root 0
Construct(UV, g) ==
    [ dist |-> UV, grid |-> g, root |-> 0,
      colAlign |-> 0, rowAlign |-> 0,
      colConstrained |-> FALSE, rowConstrained |-> FALSE,
      viewing |-> FALSE, height |-> 0, width |-> 0,
      local |-> [p \in Procs(g) |-> EmptyLocal] ]

\* DistData(): the descriptor of a matrix
DistData(M) ==
    [ colDist |-> M.dist[1], rowDist |-> M.dist[2],
      colAlign |-> M.colAlign, rowAlign |-> M.rowAlign,
      root |-> M.root, grid |-> M.grid ]

\* EmptyData(): frees the local data and makes the matrix 0 x 0
EmptyData(M) ==
    [M EXCEPT !.height = 0, !.width = 0, !.viewing = FALSE,
              !.local = [p \in Procs(M.grid) |-> EmptyLocal]]

\* Empty(): EmptyData and the alignments forgotten
Empty(M) ==
    [EmptyData(M) EXCEPT !.colAlign = 0, !.rowAlign = 0,
                         !.colConstrained = FALSE, !.rowConstrained = FALSE]

\* SetGrid( grid ): a new grid instance empties the matrix
SetGrid(M, g) ==
    IF M.grid = g THEN M
    ELSE Empty([M EXCEPT !.grid = g])

\* SetRoot( root ): a new root empties the data
SetRoot(M, r) ==
    IF M.root = r THEN M ELSE [EmptyData(M) EXCEPT !.root = r]

\* AlignCols( colAlign, constrain )
AlignCols(M, a, constrain) ==
    LET M1 == IF M.colAlign # a THEN EmptyData(M) ELSE M
    IN  [M1 EXCEPT !.colAlign = a,
                   !.colConstrained = (M.colConstrained \/ constrain)]

\* AlignRows( rowAlign, constrain )
AlignRows(M, a, constrain) ==
    LET M1 == IF M.rowAlign # a THEN EmptyData(M) ELSE M
    IN  [M1 EXCEPT !.rowAlign = a,
                   !.rowConstrained = (M.rowConstrained \/ constrain)]

\* Resize( height, width ): every process reallocates its local matrix to
\* Length(height,colShift,colStride) x Length(width,rowShift,rowStride); a
\* local matrix whose dimensions do not change keeps its entries, a new
\* buffer holds the content named by seed s
Resize(M, h, w, s) ==
    [M EXCEPT !.height = h, !.width = w,
              !.local = [p \in Procs(M.grid) |->
                  LET lh == LocalHeightOf(M, h, p)
                      lw == LocalWidthOf(M, w, p)
                  IN  IF M.local[p].h = lh /\ M.local[p].w = lw
                      THEN M.local[p]
                      ELSE [h |-> lh, w |-> lw,
                            e |-> [ij \in Idx(lh, lw) |->
                                     FillVal(s, GlobalRow(M, p, ij[1]),
                                                GlobalCol(M, p, ij[2]))]]]]

\* AlignAndResize( colAlign, rowAlign, height, width, force, constrain ):
\* an unconstrained alignment of a matrix that owns its data is replaced
AlignAndResize(M, ca, ra, h, w, force, constrain, s) ==
    LET M1 == IF ~M.viewing /\ (force \/ ~M.colConstrained)
              THEN [M EXCEPT !.colAlign = ca] ELSE M
        M2 == IF ~M.viewing /\ (force \/ ~M.rowConstrained)
              THEN [M1 EXCEPT !.rowAlign = ra] ELSE M1
        M3 == [M2 EXCEPT !.colConstrained = (M.colConstrained \/ constrain),
                         !.rowConstrained = (M.rowConstrained \/ constrain)]
    IN  Resize(M3, h, w, s)

\* ------------------------------------------------------------ call results
\* What a call did on every process of the grid: "ok" (ran to its end),
\* "skipped" (returned at once: not participating), "LogicError" (threw),
\* "undefined" (read or wrote outside a buffer, or ran past a check that is
\* compiled out); rs counts the reduce-scatter collectives the process issued.
Outcome(M, o) == [p \in Procs(M.grid) |-> o]

NoCollective(M) == [p \in Procs(M.grid) |-> 0]

\* every process throws (a DEBUG_ONLY check fails before anything else)
Thrown(M) ==
    [m |-> M, out |-> Outcome(M, "LogicError"), rs |-> NoCollective(M)]

\* the behaviour is undefined on every participating process: the local
\* data of the matrix holds whatever the run left there (seed s)
Undefined(M, s) ==
    [m |-> [M EXCEPT !.local = [p \in Procs(M.grid) |->
                [M.local[p] EXCEPT !.e = [ij \in DOMAIN M.local[p].e |->
                    FillVal(s, ij[1], ij[2])]]]],
     out |-> [p \in Procs(M.grid) |->
                IF Participating(M, p) THEN "undefined" ELSE "skipped"],
     rs |-> NoCollective(M)]

Failed(res) == \E p \in DOMAIN res.out : res.out[p] = "LogicError"

\* ------------------------------------------------------------ source matrices
\* The argument A of a redistribution: a distributed matrix whose local
\* entry for global position (i,j) on process q is AVal(seed, q, i, j); the
\* copies held by different processes differ when seed = 1 (partial sums).
AVal(seed, q, i, j) == (1 + seed * (q + 1)) * Enc(i, j)

Source(UV, g, ca, ra, h, w, seed) ==
    LET M0 == [Construct(UV, g) EXCEPT !.colAlign = ca, !.rowAlign = ra,
                                       !.height = h, !.width = w]
    IN  [ dist |-> UV, grid |-> g, root |-> 0, colAlign |-> ca, rowAlign |-> ra,
          height |-> h, width |-> w, seed |-> seed,
          local |-> [q \in Procs(g) |->
            LET lh == LocalHeightOf(M0, h, q)
                lw == LocalWidthOf(M0, w, q)
            IN  [h |-> lh, w |-> lw,
                 e |-> [ij \in Idx(lh, lw) |->
                          AVal(seed, q, GlobalRow(M0, q, ij[1]),
                                        GlobalCol(M0, q, ij[2]))]]] ]

\* AssertSameGrids( A, B )
SameGrids(A, B) == A.grid = B.grid

\* AssertSameSize( height, width )
SameSize(M, h, w) == M.height = h /\ M.width = w

\* sum of f[q] over the members q of a communicator
RECURSIVE SumComm(_, _)
SumComm(f, comm) ==
    IF comm = {} THEN 0
    ELSE LET q == CHOOSE x \in comm : TRUE
         IN  f[q] + SumComm(f, comm \ {q})

\* ----------------------------------------------------------- AlignColsWith
\* faulty variant of the scattered alignment: the modulus left out
ScatteredAlignUnreduced(a, stride) == a

\* data.colAlign % this->ColStride(): the alignment of a scattered relative
\* reduced to the stride of *this
ScatteredAlign(a, stride) == a % stride

\* faulty variant of the mismatch test: the descriptor's row kind not looked at
NonsensicalIgnoringRowDist(U, data, allowMismatch) ==
    /\ U # Collect(U)
    /\ data.colDist # Collect(U)
    /\ ~allowMismatch

\* U != UGath && data.colDist != UGath && data.rowDist != UGath &&
\* !allowMismatch
NonsensicalAlignment(U, data, allowMismatch) ==
    /\ U # Collect(U)
    /\ data.colDist # Collect(U)
    /\ data.rowDist # Collect(U)
    /\ ~allowMismatch

\* a call that ran to its end without communicating
Returned(M) == [m |-> M, out |-> Outcome(M, "ok"), rs |-> NoCollective(M)]

\* faulty variant of AlignColsWith: the grid of the descriptor not adopted
AlignColsWithoutSetGrid(M, data, constrain, allowMismatch) ==
    LET U  == M.dist[1]
        M2 == SetRoot(M, data.root)
    IN  IF data.colDist = U \/ data.colDist = Partial(U)
        THEN Returned(AlignCols(M2, data.colAlign, constrain))
        ELSE IF data.rowDist = U \/ data.rowDist = Partial(U)
        THEN Returned(AlignCols(M2, data.rowAlign, constrain))
        ELSE IF data.colDist = Scatter(U)
        THEN Returned(AlignCols(M2, ScatteredAlign(data.colAlign, ColStride(M2)),
                                constrain))
        ELSE IF data.rowDist = Scatter(U)
        THEN Returned(AlignCols(M2, ScatteredAlign(data.rowAlign, ColStride(M2)),
                                constrain))
        ELSE IF NonsensicalAlignment(U, data, allowMismatch)
        THEN Thrown(M2)
        ELSE Returned(M2)

\* GeneralDistMatrix<T,U,V>::AlignColsWith( data, constrain, allowMismatch )
AlignColsWith(M, data, constrain, allowMismatch) ==
    LET U  == M.dist[1]
        M1 == SetGrid(M, data.grid)
        M2 == SetRoot(M1, data.root)
    IN  IF data.colDist = U \/ data.colDist = Partial(U)
        THEN Returned(AlignCols(M2, data.colAlign, constrain))
        ELSE IF data.rowDist = U \/ data.rowDist = Partial(U)
        THEN Returned(AlignCols(M2, data.rowAlign, constrain))
        ELSE IF data.colDist = Scatter(U)
        THEN Returned(AlignCols(M2, ScatteredAlign(data.colAlign, ColStride(M2)),
                                constrain))
        ELSE IF data.rowDist = Scatter(U)
        THEN Returned(AlignCols(M2, ScatteredAlign(data.rowAlign, ColStride(M2)),
                                constrain))
        ELSE IF NonsensicalAlignment(U, data, allowMismatch)
        THEN Thrown(M2)
        ELSE Returned(M2)

\* GeneralDistMatrix<T,U,V>::AlignRowsWith( data, constrain, allowMismatch )
AlignRowsWith(M, data, constrain, allowMismatch) ==
    LET V  == M.dist[2]
        M1 == SetGrid(M, data.grid)
        M2 == SetRoot(M1, data.root)
    IN  IF data.colDist = V \/ data.colDist = Partial(V)
        THEN Returned(AlignRows(M2, data.colAlign, constrain))
        ELSE IF data.rowDist = V \/ data.rowDist = Partial(V)
        THEN Returned(AlignRows(M2, data.rowAlign, constrain))
        ELSE IF data.colDist = Scatter(V)
        THEN Returned(AlignRows(M2, ScatteredAlign(data.colAlign, RowStride(M2)),
                                constrain))
        ELSE IF data.rowDist = Scatter(V)
        THEN Returned(AlignRows(M2, ScatteredAlign(data.rowAlign, RowStride(M2)),
                                constrain))
        ELSE IF NonsensicalAlignment(V, data, allowMismatch)
        THEN Thrown(M2)
        ELSE Returned(M2)

\* ---------------------------------------------------------- SumScatterUpdate
\* the pack loop of SumScatterUpdate: segment k + l*colStride of the send
\* buffer is the contribution to the process of column rank k, row rank l
ThisRowShift(M, l) == Shift_(l, M.rowAlign, RowStride(M))

\* faulty variant of thisLocalWidth: the length taken with the column stride
ThisLocalWidthByColStride(M, l) == Length_(M.width, ThisRowShift(M, l), ColStride(M))

ThisLocalWidth(M, l) == Length_(M.width, ThisRowShift(M, l), RowStride(M))

ThisColShift(M, k) == Shift_(k, M.colAlign, ColStride(M))

ThisLocalHeight(M, k) == Length_(M.height, ThisColShift(M, k), ColStride(M))

\* InterleaveMatrix( thisLocalHeight, thisLocalWidth,
\*   A.LockedBuffer(thisColShift,thisRowShift), colStride, A.LDim(), ... ):
\* packed entry (a,b) is read colStride rows further down for each a and
\* A.LDim() buffer entries, that is one column, further on for each b
PackSrcRow(M, k, a) == ThisColShift(M, k) + a * ColStride(M)

PackSrcCol(M, l, b) == ThisRowShift(M, l) + b

\* the entries of A that segment (k,l) packs, as global positions
PackedPositions(M, k, l) ==
    { <<PackSrcRow(M, k, ab[1]), PackSrcCol(M, l, ab[2])>> :
        ab \in Idx(ThisLocalHeight(M, k), ThisLocalWidth(M, l)) }

\* the segment process q packs for (k,l): data[a + b*thisLocalHeight]
PackSegment(M, A, q, k, l) ==
    LET tlh == ThisLocalHeight(M, k)
        tlw == ThisLocalWidth(M, l)
    IN  [x \in 0 .. (tlh * tlw - 1) |->
            A.local[q].e[<<PackSrcRow(M, k, x % tlh), PackSrcCol(M, l, x \div tlh)>>]]

\* mpi::ReduceScatter( buffer, recvSize, DistComm() ): the member of rank
\* k + l*colStride receives the sum of the members' segments (k,l)
ScatterRecv(M, A, p) ==
    LET k == DistRank(M, p) % ColStride(M)
        l == DistRank(M, p) \div ColStride(M)
        comm == DistComm(M, p)
        segs == [q \in comm |-> PackSegment(M, A, q, k, l)]
    IN  [x \in DOMAIN segs[p] |-> SumComm([q \in comm |-> segs[q][x]], comm)]

\* InterleaveMatrixUpdate( alpha, localHeight, localWidth, buffer, 1,
\*   localHeight, Buffer(), 1, LDim() ); the part of the receive buffer that
\*   no segment filled is read as 0
UnpackUpdate(loc, alpha, recv, lh) ==
    [loc EXCEPT !.e = [ij \in DOMAIN loc.e |->
        LET x == ij[1] + ij[2] * lh
        IN  loc.e[ij] + alpha * (IF x \in DOMAIN recv THEN recv[x] ELSE 0)]]

\* GeneralDistMatrix<T,U,V>::SumScatterUpdate( alpha, A ), A in [UGath,VGath]
SumScatterUpdate(M, alpha, A, dbg, s) ==
    IF ~SameGrids(M, A) \/ ~SameSize(M, A.height, A.width)
    THEN IF dbg THEN Thrown(M) ELSE Undefined(M, s)
    ELSE [m |-> [M EXCEPT !.local = [p \in Procs(M.grid) |->
                    IF ~Participating(M, p) THEN M.local[p]
                    ELSE UnpackUpdate(M.local[p], alpha, ScatterRecv(M, A, p),
                                      M.local[p].h)]],
          out |-> [p \in Procs(M.grid) |->
                    IF Participating(M, p) THEN "ok" ELSE "skipped"],
          rs |-> [p \in Procs(M.grid) |->
                    IF Participating(M, p) THEN 1 ELSE 0]]

\* Zeros( this->Matrix(), this->LocalHeight(), this->LocalWidth() )
ZeroLocal(M) ==
    [M EXCEPT !.local = [p \in Procs(M.grid) |->
        Zeros(LocalHeightOf(M, M.height, p), LocalWidthOf(M, M.width, p))]]

\* GeneralDistMatrix<T,U,V>::SumScatterFrom( A ); Resize rejects a view
SumScatterFrom(M, A, dbg, s) ==
    IF ~SameGrids(M, A)
    THEN IF dbg THEN Thrown(M) ELSE Undefined(M, s)
    ELSE IF M.viewing THEN Thrown(M)
    ELSE SumScatterUpdate(ZeroLocal(Resize(M, A.height, A.width, s)), 1, A, dbg, s)

\* ------------------------------------------------ partial (one-dimensional)
PartialColStride(M) == Stride(Partial(M.dist[1]), M.grid)

PartialRowStride(M) == Stride(Partial(M.dist[2]), M.grid)

PartialUnionColStride(M) == ColStride(M) \div PartialColStride(M)

PartialUnionRowStride(M) == RowStride(M) \div PartialRowStride(M)

PartialColRank(M, p) == Rank(Partial(M.dist[1]), M.grid, p)

PartialRowRank(M, p) == Rank(Partial(M.dist[2]), M.grid, p)

PartialUnionColRank(M, p) == ColRank(M, p) \div PartialColStride(M)

PartialUnionRowRank(M, p) == RowRank(M, p) \div PartialRowStride(M)

PartialUnionColComm(M, p) ==
    { q \in DistComm(M, p) :
        PartialColRank(M, q) = PartialColRank(M, p) /\ RowRank(M, q) = RowRank(M, p) }

PartialUnionRowComm(M, p) ==
    { q \in DistComm(M, p) :
        PartialRowRank(M, q) = PartialRowRank(M, p) /\ ColRank(M, q) = ColRank(M, p) }

\* ------------------------------------------------ PartialRowSumScatterUpdate
\* faulty variant of the alignment test: the column alignment of *this taken
\* for its row alignment
RowAlignedByColAlign(M, A) == M.colAlign % RowStride(A) = A.rowAlign

RowAligned(M, A) == M.rowAlign % RowStride(A) = A.rowAlign

\* the pack loop on process q, segment k
PRowThisRowShift(M, q, k) ==
    Shift_(PartialRowRank(M, q) + k * PartialRowStride(M), M.rowAlign, RowStride(M))

PRowThisRowOffset(M, A, q, k) ==
    CDiv(PRowThisRowShift(M, q, k) - RowShift(A, q), PartialRowStride(M))

PRowThisLocalWidth(M, q, k) == Length_(M.width, PRowThisRowShift(M, q, k), RowStride(M))

\* InterleaveMatrix( height, thisLocalWidth, A.LockedBuffer(0,thisRowOffset),
\*   1, rowStrideUnion*A.LDim(), data, 1, height ): the local entry of A
\*   that packed entry (i,b) of segment k is read from
PRowSrc(M, A, q, k, i, b) ==
    <<i, PRowThisRowOffset(M, A, q, k) + b * PartialUnionRowStride(M)>>

PRowSegment(M, A, q, k) ==
    LET tlw == PRowThisLocalWidth(M, q, k)
    IN  [x \in 0 .. (M.height * tlw - 1) |->
            A.local[q].e[PRowSrc(M, A, q, k, x % M.height, x \div M.height)]]

\* every read of the pack loop and every write of the unpack loop of
\* process q lies inside the local matrices
PRowInBounds(M, A, q) ==
    /\ \A k \in 0 .. (PartialUnionRowStride(M) - 1) :
         \A ib \in Idx(M.height, PRowThisLocalWidth(M, q, k)) :
            PRowSrc(M, A, q, k, ib[1], ib[2]) \in DOMAIN A.local[q].e
    /\ Idx(M.height, M.local[q].w) = DOMAIN M.local[q].e

\* mpi::ReduceScatter( buffer, recvSize, PartialUnionRowComm() )
PRowRecv(M, A, p) ==
    LET k == PartialUnionRowRank(M, p)
        comm == PartialUnionRowComm(M, p)
        segs == [q \in comm |-> PRowSegment(M, A, q, k)]
    IN  [x \in DOMAIN segs[p] |-> SumComm([q \in comm |-> segs[q][x]], comm)]

\* GeneralDistMatrix<T,U,V>::PartialRowSumScatterUpdate( alpha, A ),
\* A in [U,VPart]
PartialRowSumScatterUpdate(M, alpha, A, dbg, s) ==
    IF dbg /\ ~(SameGrids(M, A) /\ SameSize(M, A.height, A.width))
    THEN Thrown(M)
    ELSE IF ~RowAligned(M, A)
    THEN [m |-> M,
          out |-> [p \in Procs(M.grid) |->
                    IF Participating(M, p) THEN "LogicError" ELSE "skipped"],
          rs |-> NoCollective(M)]
    ELSE IF ~(SameGrids(M, A) /\ SameSize(M, A.height, A.width))
    THEN Undefined(M, s)
    ELSE IF \E q \in Procs(M.grid) : Participating(M, q) /\ ~PRowInBounds(M, A, q)
    THEN Undefined(M, s)
    ELSE [m |-> [M EXCEPT !.local = [p \in Procs(M.grid) |->
                    IF ~Participating(M, p) THEN M.local[p]
                    ELSE UnpackUpdate(M.local[p], alpha, PRowRecv(M, A, p),
                                      M.height)]],
          out |-> [p \in Procs(M.grid) |->
                    IF Participating(M, p) THEN "ok" ELSE "skipped"],
          rs |-> [p \in Procs(M.grid) |->
                    IF Participating(M, p) THEN 1 ELSE 0]]

\* GeneralDistMatrix<T,U,V>::PartialRowSumScatterFrom( A )
PartialRowSumScatterFrom(M, A, dbg, s) ==
    IF ~SameGrids(M, A)
    THEN IF dbg THEN Thrown(M) ELSE Undefined(M, s)
    ELSE IF M.viewing THEN Thrown(M)
    ELSE PartialRowSumScatterUpdate(
            ZeroLocal(AlignAndResize(M, A.colAlign, A.rowAlign, A.height, A.width,
                                     FALSE, FALSE, s)), 1, A, dbg, s)

\* ------------------------------------------------ PartialColSumScatterUpdate
ColAligned(M, A) == M.colAlign % ColStride(A) = A.colAlign

PColThisColShift(M, q, k) ==
    Shift_(PartialColRank(M, q) + k * PartialColStride(M), M.colAlign, ColStride(M))

PColThisColOffset(M, A, q, k) ==
    CDiv(PColThisColShift(M, q, k) - ColShift(A, q), PartialColStride(M))

PColThisLocalHeight(M, q, k) ==
    Length_(M.height, PColThisColShift(M, q, k), ColStride(M))

\* InterleaveMatrix( thisLocalHeight, width, A.LockedBuffer(thisColOffset,0),
\*   colStrideUnion, A.LDim(), data, 1, thisLocalHeight )
PColSrc(M, A, q, k, a, j) ==
    <<PColThisColOffset(M, A, q, k) + a * PartialUnionColStride(M), j>>

PColSegment(M, A, q, k) ==
    LET tlh == PColThisLocalHeight(M, q, k)
    IN  [x \in 0 .. (tlh * M.width - 1) |->
            A.local[q].e[PColSrc(M, A, q, k, x % tlh, x \div tlh)]]

PColInBounds(M, A, q) ==
    /\ \A k \in 0 .. (PartialUnionColStride(M) - 1) :
         \A aj \in Idx(PColThisLocalHeight(M, q, k), M.width) :
            PColSrc(M, A, q, k, aj[1], aj[2]) \in DOMAIN A.local[q].e
    /\ Idx(M.local[q].h, M.width) = DOMAIN M.local[q].e

\* mpi::ReduceScatter( buffer, recvSize, PartialUnionColComm() )
PColRecv(M, A, p) ==
    LET k == PartialUnionColRank(M, p)
        comm == PartialUnionColComm(M, p)
        segs == [q \in comm |-> PColSegment(M, A, q, k)]
    IN  [x \in DOMAIN segs[p] |-> SumComm([q \in comm |-> segs[q][x]], comm)]

\* GeneralDistMatrix<T,U,V>::PartialColSumScatterUpdate( alpha, A ),
\* A in [UPart,V]
PartialColSumScatterUpdate(M, alpha, A, dbg, s) ==
    IF dbg /\ ~(SameGrids(M, A) /\ SameSize(M, A.height, A.width))
    THEN Thrown(M)
    ELSE IF ~ColAligned(M, A)
    THEN [m |-> M,
          out |-> [p \in Procs(M.grid) |->
                    IF Participating(M, p) THEN "LogicError" ELSE "skipped"],
          rs |-> NoCollective(M)]
    ELSE IF ~(SameGrids(M, A) /\ SameSize(M, A.height, A.width))
    THEN Undefined(M, s)
    ELSE IF \E q \in Procs(M.grid) : Participating(M, q) /\ ~PColInBounds(M, A, q)
    THEN Undefined(M, s)
    ELSE [m |-> [M EXCEPT !.local = [p \in Procs(M.grid) |->
                    IF ~Participating(M, p) THEN M.local[p]
                    ELSE UnpackUpdate(M.local[p], alpha, PColRecv(M, A, p),
                                      M.local[p].h)]],
          out |-> [p \in Procs(M.grid) |->
                    IF Participating(M, p) THEN "ok" ELSE "skipped"],
          rs |-> [p \in Procs(M.grid) |->
                    IF Participating(M, p) THEN 1 ELSE 0]]

\* GeneralDistMatrix<T,U,V>::PartialColSumScatterFrom( A )
PartialColSumScatterFrom(M, A, dbg, s) ==
    IF ~SameGrids(M, A)
    THEN IF dbg THEN Thrown(M) ELSE Undefined(M, s)
    ELSE IF M.viewing THEN Thrown(M)
    ELSE PartialColSumScatterUpdate(
            ZeroLocal(AlignAndResize(M, A.colAlign, A.rowAlign, A.height, A.width,
                                     FALSE, FALSE, s)), 1, A, dbg, s)

\* ------------------------------------------------- TransposeColFilterFrom
\* AlignColsAndResize( colAlign, height, width, force, constrain )
AlignColsAndResize(M, ca, h, w, force, constrain, s) ==
    LET M1 == IF ~M.viewing /\ (force \/ ~M.colConstrained)
              THEN [M EXCEPT !.colAlign = ca] ELSE M
        M2 == [M1 EXCEPT !.colConstrained = (M.colConstrained \/ constrain)]
    IN  Resize(M2, h, w, s)

\* copy::RowFilter( A, B ), A in [U,VGath], B in [U,V] on the grid of A: B
\* takes A's column alignment unless its own is constrained, is resized to
\* A's size, and each process copies the columns it owns out of its copy of A
RowFilter(A, B, s) ==
    LET B1 == AlignColsAndResize(B, A.colAlign, A.height, A.width, FALSE, FALSE, s)
    IN  [B1 EXCEPT !.local = [p \in Procs(B1.grid) |->
            [B1.local[p] EXCEPT !.e = [ab \in DOMAIN B1.local[p].e |->
                AVal(A.seed, p, GlobalRow(B1, p, ab[1]), GlobalCol(B1, p, ab[2]))]]]]

\* Transpose( A, B ) of local matrices: B becomes n x m, B(j,i) = A(i,j)
Transpose(loc) ==
    [h |-> loc.w, w |-> loc.h,
     e |-> [ji \in Idx(loc.w, loc.h) |-> loc.e[<<ji[2], ji[1]>>]]]

\* AFilt of TransposeColFilterFrom as handed to copy::RowFilter: a [V,U]
\* matrix on the grid of A, aligned (not constrained) with the constrained
\* axes of *this
AFiltAligned(M, A) ==
    LET AFilt0 == Construct(<<M.dist[2], M.dist[1]>>, A.grid)
        AFilt1 == IF M.colConstrained
                  THEN AlignRowsWith(AFilt0, DistData(M), FALSE, FALSE).m
                  ELSE AFilt0
    IN  IF M.rowConstrained
        THEN AlignColsWith(AFilt1, DistData(M), FALSE, FALSE).m
        ELSE AFilt1

\* GeneralDistMatrix<T,U,V>::TransposeColFilterFrom( A, conjugate ),
\* A in [V,UGath]; copy::RowFilter asserts the same grid in a debug build
TransposeColFilterFrom(M, A, dbg, s) ==
    LET AFilt2 == AFiltAligned(M, A)
    IN  IF ~SameGrids(A, AFilt2)
        THEN IF dbg THEN Thrown(M) ELSE Undefined(M, s)
        ELSE
        LET AFilt == RowFilter(A, AFilt2, s)
            M1 == IF ~M.colConstrained
                  THEN AlignColsWith(M, DistData(AFilt), FALSE, FALSE).m ELSE M
            M2 == IF ~M.rowConstrained
                  THEN AlignRowsWith(M1, DistData(AFilt), FALSE, FALSE).m ELSE M1
            M3 == Resize(M2, A.width, A.height, s)
        IN  IF M2.viewing THEN Thrown(M2)
            ELSE Returned([M3 EXCEPT !.local =
                    [p \in Procs(M3.grid) |-> Transpose(AFilt.local[p])]])

\* -------------------------------------------------- TransposeColAllGather
\* the members of the communicator of kind K that process p belongs to
KindComm(K, g, p) ==
    CASE K = "MC" -> { q \in Procs(g) : GridCol(g, q) = GridCol(g, p) }
      [] K = "MR" -> { q \in Procs(g) : GridRow(g, q) = GridRow(g, p) }
      [] K = "VC" -> Procs(g)
      [] K = "VR" -> Procs(g)
      [] K = "MD" -> { q \in Procs(g) : DiagPath(g, q) = DiagPath(g, p) }
      [] OTHER -> {p}

\* Conj( alpha ): the entries of a complex matrix are the imaginary numbers
\* v*i, held as v, so that conjugation negates them; a real entry is its own
\* conjugate
Conj(complex, v) == IF complex THEN -v ELSE v

\* Transpose( A, B, conjugate ) of local matrices: B becomes n x m,
\* B(j,i) = A(i,j), conjugated when asked
TransposeUnconjugated(loc, conjugate, complex) == Transpose(loc)

TransposeLocal(loc, conjugate, complex) ==
    [h |-> loc.w, w |-> loc.h,
     e |-> [ji \in Idx(loc.w, loc.h) |->
              IF conjugate THEN Conj(complex, loc.e[<<ji[2], ji[1]>>])
              ELSE loc.e[<<ji[2], ji[1]>>]]]

\* AlignWith( data ): AlignColsWith and AlignRowsWith, constraining
AlignWith(M, data) ==
    AlignRowsWith(AlignColsWith(M, data, TRUE, FALSE).m, data, TRUE, FALSE).m

\* ATrans of TransposeColAllGather: the [V,U] matrix aligned with *this that
\* holds the transposes of the local matrices of *this
ATransOf(M, conjugate, complex, s) ==
    LET ATrans0 == AlignWith(Construct(<<M.dist[2], M.dist[1]>>, M.grid), DistData(M))
        ATrans1 == Resize(ATrans0, M.width, M.height, s)
    IN  [ATrans1 EXCEPT !.local = [p \in Procs(M.grid) |->
            TransposeLocal(M.local[p], conjugate, complex)]]

\* the member of p's row communicator of A that holds column j of A
RowOwner(A, p, j) ==
    CHOOSE q \in KindComm(A.dist[2], A.grid, p) :
        RowRank(A, q) = (j + A.rowAlign) % RowStride(A)

\* the local position of global entry (i,j) in the local matrix of q
LocalPos(A, q, i, j) ==
    <<CDiv(i - ColShift(A, q), ColStride(A)), CDiv(j - RowShift(A, q), RowStride(A))>>

\* what the gather-all hands process p for the local entry ab of B
Gathered(A, B, p, ab) ==
    LET i == GlobalRow(B, p, ab[1])
        j == GlobalCol(B, p, ab[2])
        q == RowOwner(A, p, j)
    IN  [q |-> q, pos |-> LocalPos(A, q, i, j)]

\* every entry the gather-all needs is in the local matrix of its owner
GatherInBuffer(A, B, p) ==
    \A ab \in DOMAIN B.local[p].e :
        Gathered(A, B, p, ab).pos \in DOMAIN A.local[Gathered(A, B, p, ab).q].e

\* copy::RowAllGather( A, B ), A in [U,V], B in [U,VGath]: B takes A's
\* column alignment unless its own is constrained and is resized to A's
\* size; an unaligned B is rejected; every participating process then
\* receives the columns of the members of its row communicator
RowAllGather(A, B, dbg, s) ==
    IF ~SameGrids(A, B)
    THEN [b |-> B, out |-> IF dbg THEN Outcome(A, "LogicError")
                           ELSE Outcome(A, "undefined")]
    ELSE
    LET B1 == AlignColsAndResize(B, A.colAlign, A.height, A.width, FALSE, FALSE, s)
    IN  IF B1.colAlign # A.colAlign
        THEN [b |-> B1, out |-> [p \in Procs(A.grid) |->
                IF Participating(A, p) THEN "LogicError" ELSE "skipped"]]
        ELSE [b |-> [B1 EXCEPT !.local = [p \in Procs(B1.grid) |->
                  IF ~Participating(A, p) \/ ~GatherInBuffer(A, B1, p)
                  THEN B1.local[p]
                  ELSE [B1.local[p] EXCEPT !.e = [ab \in DOMAIN B1.local[p].e |->
                          A.local[Gathered(A, B1, p, ab).q].e[Gathered(A, B1, p, ab).pos]]]]],
              out |-> [p \in Procs(A.grid) |->
                  IF ~Participating(A, p) THEN "skipped"
                  ELSE IF GatherInBuffer(A, B1, p) THEN "ok" ELSE "undefined"]]

\* GeneralDistMatrix<T,U,V>::TransposeColAllGather( A, conjugate ),
\* A in [V,UGath]; *this is not changed, A is
TransposeColAllGather(M, A, conjugate, complex, dbg, s) ==
    LET res == RowAllGather(ATransOf(M, conjugate, complex, s), A, dbg, s)
    IN  [m |-> M, out |-> res.out, rs |-> NoCollective(M), d |-> res.b, wr |-> <<>>]

\* ---------------------------------------------------------------- diagonals
\* DiagonalLength( height, width, offset )
DiagonalLength(h, w, offset) ==
    IF offset > 0 THEN Min(h, Max(w - offset, 0))
    ELSE Min(Max(h + offset, 0), w)

\* a diagonal treated as a column vector under the column distribution
DiagDistAsColumn(UV) == <<UV[1], "STAR">>

\* <UDiag,VDiag>: the layout of a diagonal of a [U,V] matrix
DiagDist(UV) ==
    IF UV \in {<<"MC", "MR">>, <<"MR", "MC">>} THEN <<"MD", "STAR">>
    ELSE IF UV[1] = "STAR" THEN <<UV[2], UV[1]>>
    ELSE UV

\* the process owning the first entry of diagonal `offset` of a matrix
\* distributed over both grid dimensions
DiagonalOwner(M, offset) ==
    LET cr == (M.colAlign + Max(-offset, 0)) % ColStride(M)
        rr == (M.rowAlign + Max(offset, 0)) % RowStride(M)
    IN  IF M.dist = <<"MC", "MR">> THEN cr + M.grid.h * rr
        ELSE rr + M.grid.h * cr

\* DiagonalRoot( offset )
DiagonalRoot(M, offset) ==
    IF M.dist \in {<<"MC", "MR">>, <<"MR", "MC">>}
    THEN DiagPath(M.grid, DiagonalOwner(M, offset))
    ELSE M.root

\* DiagonalAlign( offset )
DiagonalAlign(M, offset) ==
    IF M.dist \in {<<"MC", "MR">>, <<"MR", "MC">>}
    THEN DiagPathRank(M.grid, DiagonalOwner(M, offset))
    ELSE IF M.dist[1] = "STAR"
    THEN (M.rowAlign + Max(offset, 0)) % RowStride(M)
    ELSE (M.colAlign + Max(-offset, 0)) % ColStride(M)

\* WriteProxy<S,UDiag,VDiag>( &dPre, ctrl ): a [UDiag,VDiag] matrix on the
\* grid of dPre with the column alignment and the root of ctrl
DiagProxyAsCalled(M, dPre, offset) ==
    [Construct(DiagDist(M.dist), dPre.grid) EXCEPT
        !.colAlign = dPre.colAlign, !.root = dPre.root, !.colConstrained = TRUE]

DiagProxy(M, dPre, offset) ==
    [Construct(DiagDist(M.dist), dPre.grid) EXCEPT
        !.colAlign = DiagonalAlign(M, offset), !.root = DiagonalRoot(M, offset),
        !.colConstrained = TRUE]

\* the local position the diagonal loops give to the k-th local entry of d
\* on process p
DiagILocStrideByRowStride(M, d) == ColStride(d) \div RowStride(M)

DiagILocStride(M, d) == ColStride(d) \div ColStride(M)

DiagJLocStrideByColStride(M, d) == ColStride(d) \div ColStride(M)

DiagJLocStride(M, d) == ColStride(d) \div RowStride(M)

DiagILocFromDiagShift(M, d, offset, p, k) ==
    CDiv(ColShift(d, p) - ColShift(M, p), ColStride(M))
        + k * DiagILocStride(M, d)

DiagILoc(M, d, offset, p, k) ==
    CDiv(ColShift(d, p) + Max(-offset, 0) - ColShift(M, p), ColStride(M))
        + k * DiagILocStride(M, d)

DiagJLoc(M, d, offset, p, k) ==
    CDiv(ColShift(d, p) + Max(offset, 0) - RowShift(M, p), RowStride(M))
        + k * DiagJLocStride(M, d)

DiagPos(M, d, offset, p) ==
    [k \in 0 .. (d.local[p].h - 1) |->
        <<DiagILoc(M, d, offset, p, k), DiagJLoc(M, d, offset, p, k)>>]

\* every access of the loop on process p falls inside the local buffer
DiagInBuffer(M, d, offset, p) ==
    \A k \in 0 .. (d.local[p].h - 1) :
        DiagPos(M, d, offset, p)[k] \in DOMAIN M.local[p].e

\* what a diagonal call did on every process
DiagOutcome(M, d, offset) ==
    [p \in Procs(M.grid) |->
        IF ~Participating(d, p) THEN "skipped"
        ELSE IF DiagInBuffer(M, d, offset, p) THEN "ok" ELSE "undefined"]

DiagWrites(M, d, offset) ==
    [p \in Procs(M.grid) |->
        IF Participating(d, p) THEN DiagPos(M, d, offset, p)
        ELSE [k \in {} |-> <<0, 0>>]]

\* GeneralDistMatrix<T,U,V>::GetDiagonalHelper( dPre, offset, func ) with
\* func the assignment of GetDiagonal; dPre is the caller's matrix
GetDiagonalHelper(M, dPre, offset, dbg, s) ==
    IF dPre.grid # M.grid
    THEN IF dbg THEN Thrown(M) @@ [d |-> DiagProxy(M, dPre, offset), wr |-> <<>>]
         ELSE Undefined(M, s) @@ [d |-> DiagProxy(M, dPre, offset), wr |-> <<>>]
    ELSE
    LET d == Resize(DiagProxy(M, dPre, offset),
                    DiagonalLength(M.height, M.width, offset), 1, s)
        pos == DiagWrites(M, d, offset)
    IN  [m |-> M, out |-> DiagOutcome(M, d, offset), rs |-> NoCollective(M),
         wr |-> pos,
         d |-> [d EXCEPT !.local = [p \in Procs(M.grid) |->
                 IF Participating(d, p) /\ DiagInBuffer(M, d, offset, p)
                 THEN [d.local[p] EXCEPT !.e = [k0 \in DOMAIN d.local[p].e |->
                          M.local[p].e[pos[p][k0[1]]]]]
                 ELSE d.local[p]]]]

\* the loop of SetDiagonalHelper on one local matrix, from entry k on:
\* func( buffer[iLoc+jLoc*ldim], dBuf[k] ), func an assignment or the
\* update alpha += gamma*beta
RECURSIVE DiagLoop(_, _, _, _, _, _)
DiagLoop(e, dloc, pos, k, update, gamma) ==
    IF k >= dloc.h THEN e
    ELSE DiagLoop([e EXCEPT ![pos[k]] =
                      IF update THEN @ + gamma * dloc.e[<<k, 0>>]
                      ELSE dloc.e[<<k, 0>>]],
                  dloc, pos, k + 1, update, gamma)

\* GeneralDistMatrix<T,U,V>::SetDiagonalHelper( dPre, offset, func ), dPre
\* a [UDiag,VDiag] matrix with the alignment and the root of ctrl
SetDiagonalHelper(M, d, offset, update, gamma, dbg, s) ==
    IF d.grid # M.grid
    THEN IF dbg THEN Thrown(M) @@ [d |-> d, wr |-> <<>>]
         ELSE Undefined(M, s) @@ [d |-> d, wr |-> <<>>]
    ELSE
    LET pos == DiagWrites(M, d, offset)
    IN  [m |-> [M EXCEPT !.local = [p \in Procs(M.grid) |->
                 IF ~Participating(d, p) THEN M.local[p]
                 ELSE IF ~DiagInBuffer(M, d, offset, p)
                 THEN [M.local[p] EXCEPT !.e = [ij \in DOMAIN M.local[p].e |->
                          FillVal(s, ij[1], ij[2])]]
                 ELSE [M.local[p] EXCEPT !.e =
                          DiagLoop(M.local[p].e, d.local[p], pos[p], 0, update, gamma)]]],
         out |-> DiagOutcome(M, d, offset), rs |-> NoCollective(M),
         wr |-> pos, d |-> d]

\* ----------------------------------------------------------------- state
VARIABLES
    debug,   \* the build keeps the DEBUG_ONLY checks (TRUE) or drops them
    this,    \* the distributed matrix *this
    call,    \* the last call on *this: its name, its arguments, *this as the
             \* call found it, each process's outcome and collectives
    nops,    \* number of calls made so far
    kernel   \* the numerical kernel built on the engine that is running
             \* (Tikhonov, EN, LLL): its inputs and its local variables

vars == <<debug, this, call, nops, kernel>>

\* no kernel is running
NoKernel == [op |-> "none"]

\* constructors: DistMatrix( grid ), DistMatrix( height, width, grid ) leave
\* the alignments zero and free; DistMatrix( height, width, colAlign,
\* rowAlign, grid, root ) fixes them
Constructed(UV, g, h, w, ca, ra, r, fixed, s) ==
    Resize([Construct(UV, g) EXCEPT !.colAlign = ca, !.rowAlign = ra, !.root = r,
                                    !.colConstrained = fixed,
                                    !.rowConstrained = fixed], h, w, s)

Dims == (0 .. MaxHeight) \X (0 .. MaxWidth)

Alphas == 1 .. MaxAlpha

\* another grid instance than g
OtherGrid(g) == [g EXCEPT !.h = IF g.h < MaxGridHeight THEN g.h + 1 ELSE 1]

\* the template instances *this is taken from
ThisDists ==
    { <<"MC", "MR">>, <<"MC", "STAR">>, <<"VC", "STAR">>, <<"STAR", "VR">>,
      <<"MD", "STAR">>, <<"CIRC", "CIRC">> }

MaxStride == MaxGridHeight * MaxGridWidth

\* the arguments a constructor accepts: alignments and root in range, and
\* alignments fixed only by the constructor that takes them
CtorArgs ==
    { a \in [dist : ThisDists, grid : Grids, h : 0 .. MaxHeight, w : 0 .. MaxWidth,
             ca : 0 .. (MaxStride - 1), ra : 0 .. (MaxStride - 1),
             r : 0 .. 1, fixed : BOOLEAN, s : FillSeeds] :
        /\ a.ca < Stride(a.dist[1], a.grid)
        /\ a.ra < Stride(a.dist[2], a.grid)
        /\ a.r < CrossSizeOf(a.dist, a.grid)
        /\ (~a.fixed => a.ca = 0 /\ a.ra = 0)
        /\ (a.h = 0 \/ a.w = 0 => a.s = 0) }

\* ------------------------------------------------------------ the arguments
\* descriptors handed to AlignColsWith / AlignRowsWith: any instantiated
\* pair of kinds, on the grid of *this or on another one, alignments and
\* root in the descriptor's own range (the root also a root *this can have)
Descriptors(M, kinds, grids) ==
    { d \in [colDist : Dist, rowDist : Dist, colAlign : 0 .. (MaxStride - 1),
             rowAlign : 0 .. (MaxStride - 1), root : 0 .. 1, grid : grids] :
        /\ <<d.colDist, d.rowDist>> \in kinds
        /\ d.colAlign < Stride(d.colDist, d.grid)
        /\ d.rowAlign < Stride(d.rowDist, d.grid)
        /\ d.root < CrossSizeOf(<<d.colDist, d.rowDist>>, d.grid)
        /\ d.root < CrossSizeOf(M.dist, d.grid) }

\* the source of SumScatterFrom / SumScatterUpdate: A in [UGath,VGath]
GatheredSources(M, grids, dims, seeds) ==
    { Source(<<Collect(M.dist[1]), Collect(M.dist[2])>>, g, 0, 0, hw[1], hw[2], sd) :
        g \in grids, hw \in dims, sd \in seeds }

\* the source of PartialRowSumScatterFrom / Update: A in [U,VPart]
PartialRowSources(M, grids, dims, seeds) ==
    UNION { { Source(<<M.dist[1], Partial(M.dist[2])>>, g,
                     M.colAlign % Stride(M.dist[1], g), ra, hw[1], hw[2], sd) :
                ra \in 0 .. (Stride(Partial(M.dist[2]), g) - 1),
                hw \in dims, sd \in seeds } : g \in grids }

\* the source of PartialColSumScatterFrom / Update: A in [UPart,V]
PartialColSources(M, grids, dims, seeds) ==
    UNION { { Source(<<Partial(M.dist[1]), M.dist[2]>>, g,
                     ca, M.rowAlign % Stride(M.dist[2], g), hw[1], hw[2], sd) :
                ca \in 0 .. (Stride(Partial(M.dist[1]), g) - 1),
                hw \in dims, sd \in seeds } : g \in grids }

\* the source of TransposeColFilterFrom: A in [V,UGath], every copy alike
FilterSources(M, grids, dims) ==
    UNION { { Source(<<M.dist[2], Collect(M.dist[1])>>, g, ca, 0, hw[1], hw[2], 0) :
                ca \in {0, Stride(M.dist[2], g) - 1}, hw \in dims } : g \in grids }

\* what a call leaves behind
Step(op, args, res) ==
    /\ this' = res.m
    /\ call' = [op |-> op, args |-> args, pre |-> this, out |-> res.out, rs |-> res.rs]
    /\ nops' = nops + 1
    /\ UNCHANGED <<debug, kernel>>

\* a source matrix without its entries, kept with the call
Descr(A) ==
    [dist |-> A.dist, grid |-> A.grid, height |-> A.height, width |-> A.width,
     colAlign |-> A.colAlign, rowAlign |-> A.rowAlign, seed |-> A.seed]

\* ------------------------------------------------------------------ calls
\* Resize( height, width ); rejected on a view
DoResize(dims, depth) ==
    /\ nops < depth
    /\ \E hw \in dims, s \in FillSeeds :
         Step("Resize", [height |-> hw[1], width |-> hw[2]],
              IF this.viewing THEN Thrown(this)
              ELSE [m |-> Resize(this, hw[1], hw[2], s),
                    out |-> Outcome(this, "ok"), rs |-> NoCollective(this)])

\* Attach( height, width, colAlign, rowAlign, root, buffer, ldim, grid ):
\* binds *this to a caller's buffer, which holds the content of seed s
DoAttach(args, depth) ==
    /\ nops < depth
    /\ \E a \in args :
         Step("Attach", [height |-> a.h, width |-> a.w],
              LET M == [Constructed(this.dist, a.grid, a.h, a.w, a.ca, a.ra, a.r,
                                    TRUE, a.s) EXCEPT !.viewing = TRUE]
              IN  [m |-> M, out |-> Outcome(M, "ok"), rs |-> NoCollective(M)])

DoAlignColsWith(datas, depth) ==
    /\ nops < depth
    /\ \E data \in datas, constrain \in BOOLEAN, allowMismatch \in BOOLEAN :
         Step("AlignColsWith",
              [data |-> data, constrain |-> constrain, allowMismatch |-> allowMismatch],
              AlignColsWith(this, data, constrain, allowMismatch))

DoAlignRowsWith(datas, depth) ==
    /\ nops < depth
    /\ \E data \in datas, constrain \in BOOLEAN, allowMismatch \in BOOLEAN :
         Step("AlignRowsWith",
              [data |-> data, constrain |-> constrain, allowMismatch |-> allowMismatch],
              AlignRowsWith(this, data, constrain, allowMismatch))

DoSumScatterFrom(sources, depth) ==
    /\ nops < depth
    /\ \E A \in sources, s \in FillSeeds :
         Step("SumScatterFrom", [alpha |-> 1, A |-> Descr(A)],
              SumScatterFrom(this, A, debug, s))

DoSumScatterUpdate(sources, depth) ==
    /\ nops < depth
    /\ \E A \in sources, alpha \in Alphas, s \in FillSeeds :
         Step("SumScatterUpdate", [alpha |-> alpha, A |-> Descr(A)],
              SumScatterUpdate(this, alpha, A, debug, s))

DoPartialRowSumScatterFrom(sources, depth) ==
    /\ nops < depth
    /\ \E A \in sources, s \in FillSeeds :
         Step("PartialRowSumScatterFrom", [alpha |-> 1, A |-> Descr(A)],
              PartialRowSumScatterFrom(this, A, debug, s))

DoPartialRowSumScatterUpdate(sources, depth) ==
    /\ nops < depth
    /\ \E A \in sources, alpha \in Alphas, s \in FillSeeds :
         Step("PartialRowSumScatterUpdate", [alpha |-> alpha, A |-> Descr(A)],
              PartialRowSumScatterUpdate(this, alpha, A, debug, s))

DoPartialColSumScatterFrom(sources, depth) ==
    /\ nops < depth
    /\ \E A \in sources, s \in FillSeeds :
         Step("PartialColSumScatterFrom", [alpha |-> 1, A |-> Descr(A)],
              PartialColSumScatterFrom(this, A, debug, s))

DoPartialColSumScatterUpdate(sources, depth) ==
    /\ nops < depth
    /\ \E A \in sources, alpha \in Alphas, s \in FillSeeds :
         Step("PartialColSumScatterUpdate", [alpha |-> alpha, A |-> Descr(A)],
              PartialColSumScatterUpdate(this, alpha, A, debug, s))

DoTransposeColFilterFrom(sources, depth) ==
    /\ nops < depth
    /\ \E A \in sources, s \in FillSeeds :
         Step("TransposeColFilterFrom", [A |-> Descr(A)],
              TransposeColFilterFrom(this, A, debug, s))

\* what a call on a diagonal leaves behind: also the diagonal d it filled
\* or read, the local positions wr its loop visited on every process, and
\* the matrix `of` that d was taken from
StepDiag(op, args, res, of) ==
    /\ this' = res.m
    /\ call' = [op |-> op, args |-> args, pre |-> this, out |-> res.out,
                rs |-> res.rs, d |-> res.d, wr |-> res.wr, of |-> of]
    /\ nops' = nops + 1
    /\ UNCHANGED <<debug, kernel>>

\* the matrices a caller hands to GetDiagonal( d, offset ): [UDiag,VDiag]
\* matrices with a column alignment and a root of the caller's choosing
DiagTargets(M, grids) ==
    UNION { { [grid |-> g, colAlign |-> a, root |-> r] :
                a \in {0, Stride(DiagDist(M.dist)[1], g) - 1},
                r \in {0, CrossSizeOf(DiagDist(M.dist), g) - 1} } : g \in grids }

\* the offsets of the diagonals of M, and one past each end
DiagOffsets(M) == (-M.height) .. M.width

\* the last call ran to its end on every process that took part
CallRan == \A p \in DOMAIN call.out : call.out[p] \in {"ok", "skipped"}

\* GetDiagonal( d, offset )
DoGetDiagonal(targets, depth) ==
    /\ nops < depth
    /\ call.op = "Construct"
    /\ \E dPre \in targets, offset \in DiagOffsets(this), s \in {0} :
         StepDiag("GetDiagonal", [offset |-> offset, d |-> dPre],
                  GetDiagonalHelper(this, dPre, offset, debug, s), this)

\* UpdateDiagonal( gamma, d, offset ) with the diagonal d the last
\* GetDiagonal returned
DoUpdateDiagonal(depth) ==
    /\ nops < depth
    /\ call.op = "GetDiagonal" /\ CallRan
    /\ \E gamma \in Alphas :
         StepDiag("UpdateDiagonal", [offset |-> call.args.offset, gamma |-> gamma],
                  SetDiagonalHelper(this, call.d, call.args.offset, TRUE, gamma, debug, 0),
                  call.of)

\* SetDiagonal( d, offset ) with the diagonal d the last GetDiagonal
\* returned, on the matrix it was taken from or on its updated copy
DoSetDiagonal(depth) ==
    /\ nops < depth
    /\ call.op \in {"GetDiagonal", "UpdateDiagonal"} /\ CallRan
    /\ StepDiag("SetDiagonal", [offset |-> call.args.offset],
                SetDiagonalHelper(this, call.d, call.args.offset, FALSE, 1, debug, 0),
                call.of)

\* the last call, kept with the next one
LastCall == [op |-> call.op, args |-> call.args, pre |-> call.pre, out |-> call.out]

\* the matrices a caller hands to TransposeColAllGather: 0 x 0 [V,UGath]
\* matrices, left free (zero alignment, on the grid of M) or aligned
\* beforehand (AlignWith)
GatherTargets(M, grids) ==
    UNION { { Constructed(<<M.dist[2], Collect(M.dist[1])>>, g, 0, 0, ca, 0, M.root,
                          ca > 0 \/ g # M.grid, 0) :
                ca \in 0 .. (Stride(M.dist[2], g) - 1) } : g \in grids }

\* the conjugate flag and the element type of a call: no conjugation, or
\* (on a freshly constructed matrix) conjugation of a real or of a complex
\* matrix
ConjugateFlags ==
    IF call.op = "Construct"
    THEN { <<FALSE, FALSE>>, <<TRUE, FALSE>>, <<TRUE, TRUE>> }
    ELSE { <<FALSE, FALSE>> }

\* TransposeColAllGather( A, conjugate )
DoTransposeColAllGather(targets, depth) ==
    /\ nops < depth
    /\ call.op # "TransposeColAllGather"
    /\ \E A \in targets, cc \in ConjugateFlags :
         StepDiag("TransposeColAllGather",
                  [conjugate |-> cc[1], complex |-> cc[2],
                   A |-> [grid |-> A.grid, colAlign |-> A.colAlign,
                          colConstrained |-> A.colConstrained]],
                  TransposeColAllGather(this, A, cc[1], cc[2], debug, 0), LastCall)

\* ------------------------------------------- the processes inside one call
\* The reduce-scatter updates process by process: every process of the
\* grid enters the call, runs its own copy of the body up to its return,
\* its throw or the reduce-scatter, and leaves the reduce-scatter once
\* every member of the communicator has entered it.

\* the communicator handed to mpi::ReduceScatter
CollectiveCommOfGrid(op, M, p) == Procs(M.grid)

CollectiveComm(op, M, p) ==
    CASE op = "SumScatterUpdate" -> DistComm(M, p)
      [] op = "PartialRowSumScatterUpdate" -> PartialUnionRowComm(M, p)
      [] OTHER -> PartialUnionColComm(M, p)

\* every process of the grid has entered the call; res is what the body
\* computes on each of them
BeginCall(op, args, res) ==
    /\ call' = [op |-> op, args |-> args, pre |-> this,
                out |-> Outcome(this, "called"), rs |-> NoCollective(this),
                res |-> res]
    /\ nops' = nops + 1
    /\ UNCHANGED <<this, debug, kernel>>

BeginSumScatterUpdate(sources) ==
    /\ nops = 0
    /\ \E A \in sources :
         BeginCall("SumScatterUpdate", [alpha |-> 1, A |-> Descr(A)],
                   SumScatterUpdate(this, 1, A, debug, 0))

BeginPartialRowSumScatterUpdate(sources) ==
    /\ nops = 0
    /\ \E A \in sources :
         BeginCall("PartialRowSumScatterUpdate", [alpha |-> 1, A |-> Descr(A)],
                   PartialRowSumScatterUpdate(this, 1, A, debug, 0))

BeginPartialColSumScatterUpdate(sources) ==
    /\ nops = 0
    /\ \E A \in sources :
         BeginCall("PartialColSumScatterUpdate", [alpha |-> 1, A |-> Descr(A)],
                   PartialColSumScatterUpdate(this, 1, A, debug, 0))

\* process p runs the body up to its return, its throw or
\* mpi::ReduceScatter; where the behaviour is undefined it may do either
ReachCollective(p) ==
    /\ nops > 0
    /\ p \in DOMAIN call.out
    /\ call.out[p] = "called"
    /\ \/ /\ call.res.rs[p] = 1
          /\ call' = [call EXCEPT !.out[p] = "waiting", !.rs[p] = 1]
       \/ /\ call.res.rs[p] = 0
          /\ call' = [call EXCEPT !.out[p] = call.res.out[p]]
       \/ /\ call.res.out[p] = "undefined"
          /\ call' = [call EXCEPT !.out[p] = "waiting", !.rs[p] = 1]
    /\ UNCHANGED <<this, debug, nops, kernel>>

\* process p leaves mpi::ReduceScatter, every member of the communicator
\* having contributed, and unpacks what it received
LeaveCollective(p) ==
    /\ nops > 0
    /\ p \in DOMAIN call.out
    /\ call.out[p] = "waiting"
    /\ \A q \in CollectiveComm(call.op, call.pre, p) : call.rs[q] >= 1
    /\ call' = [call EXCEPT !.out[p] = call.res.out[p]]
    /\ this' = [this EXCEPT !.local[p] = call.res.m.local[p]]
    /\ UNCHANGED <<debug, nops, kernel>>

\* ---------------------------------------------------------------- Tikhonov
\* entry (i,j) of the product A B
MatMulEntry(A, B, i, j) == SumOver([k \in 0 .. (A.w - 1) |-> A.e[<<i, k>>] * B.e[<<k, j>>]], 0, A.w)

MatMul(A, B) == [h |-> A.h, w |-> B.w, e |-> [ij \in Idx(A.h, B.w) |-> MatMulEntry(A, B, ij[1], ij[2])]]

\* squared Frobenius norm
FrobSq(A) == SumOver([k \in 0 .. (A.h * A.w - 1) |-> A.e[<<k % A.h, k \div A.h>>] * A.e[<<k % A.h, k \div A.h>>]], 0, A.h * A.w)

MatSub(A, B) == [A EXCEPT !.e = [ij \in Idx(A.h, A.w) |-> A.e[ij] - B.e[ij]]]

\* VCat( A, B, C ): C := [A; B]
VCat(A, B) ==
    [h |-> A.h + B.h, w |-> A.w,
     e |-> [ij \in Idx(A.h + B.h, A.w) |->
              IF ij[1] < A.h THEN A.e[ij] ELSE B.e[<<ij[1] - A.h, ij[2]>>]]]

\* HCat( A, B, C ): C := [A, B]
HCat(A, B) ==
    [h |-> A.h, w |-> A.w + B.w,
     e |-> [ij \in Idx(A.h, A.w + B.w) |->
              IF ij[2] < A.w THEN A.e[ij] ELSE B.e[<<ij[1], ij[2] - A.w>>]]]

\* A( IR(0,m), IR(0,k) )
TopRows(A, m, k) == [h |-> m, w |-> k, e |-> [ij \in Idx(m, k) |-> A.e[ij]]]

\* W := op(A): A, Transpose( A, W ) or Adjoint( A, W ) (the field is real)
TikhonovW(orientation, A) ==
    IF orientation = "NORMAL" THEN A
    ELSE IF orientation = "TRANSPOSE" THEN TransposeLocal(A, FALSE, FALSE)
    ELSE TransposeLocal(A, TRUE, FALSE)

\* WEmb: [W; G] when m >= n, [W, G] otherwise
TikhonovWEmb(W, G) == IF W.h >= W.w THEN VCat(W, G) ELSE HCat(W, G)

\* DistMultiVec: rows are dealt in blocks of height / commSize, the last
\* process taking the remainder
Blocksize(height, commSize) == height \div commSize

MultiVecRowOwner(height, commSize, i) ==
    IF Blocksize(height, commSize) > 0
    THEN Min(i \div Blocksize(height, commSize), commSize - 1)
    ELSE commSize - 1

FirstLocalRow(height, commSize, q) == q * Blocksize(height, commSize)

MultiVecLocalHeight(height, commSize, q) ==
    IF q < commSize - 1 THEN Blocksize(height, commSize)
    ELSE height - (commSize - 1) * Blocksize(height, commSize)

\* the triples (i, j, value) the processes pack for the rows below 'rows' of
\* the source, each addressed to the owner of row i in the target
Packed(Src, rows, targetHeight, commSize) ==
    { [i |-> FirstLocalRow(Src.h, commSize, q) + iLoc, j |-> j,
       value |-> Src.e[<<FirstLocalRow(Src.h, commSize, q) + iLoc, j>>],
       owner |-> MultiVecRowOwner(targetHeight, commSize, FirstLocalRow(Src.h, commSize, q) + iLoc)] :
        <<q, iLoc, j>> \in
          { t \in (0 .. (commSize - 1)) \X (0 .. (Src.h - 1)) \X (0 .. (Src.w - 1)) :
              /\ t[2] < MultiVecLocalHeight(Src.h, commSize, t[1])
              /\ FirstLocalRow(Src.h, commSize, t[1]) + t[2] < rows } }

\* the exchange, then UpdateLocal( i - FirstLocalRow(), j, value ) by each
\* receiver: the value is ADDED to what the target holds at global row i
Unpacked(Target, msgs, commSize) ==
    [Target EXCEPT !.e = [ij \in Idx(Target.h, Target.w) |->
        IF \E t \in msgs : t.i = ij[1] /\ t.j = ij[2]
        THEN Target.e[ij] + (CHOOSE t \in msgs : t.i = ij[1] /\ t.j = ij[2]).value
        ELSE Target.e[ij]]]

\* the right-hand side handed to LeastSquares: Zeros( BEmb, WEmb.Height(),
\* numRHS ), and B is copied into its top rows only if m >= n
TikhonovBEmb(kind, W, WEmb, B, commSize) ==
    LET z == Zeros(WEmb.h, B.w) IN
    IF W.h >= W.w
    THEN IF kind = "sparse"
         THEN [z EXCEPT !.e = [ij \in Idx(z.h, z.w) |-> IF ij[1] < W.h THEN B.e[ij] ELSE 0]]
         ELSE Unpacked(z, Packed(B, B.h, z.h, commSize), commSize)
    ELSE z

\* the candidates of the bounded search that stands for LeastSquares
BoxVectors(h) == { [h |-> h, w |-> 1, e |-> f] : f \in [Idx(h, 1) -> (-MaxTikSol) .. MaxTikSol] }

\* LeastSquares( NORMAL, WEmb, BEmb, XEmb ): for a tall WEmb a minimiser of
\* || WEmb XEmb - BEmb ||_F, for a wide one a solution of WEmb XEmb = BEmb of
\* minimum length
LeastSquares(WEmb, BEmb) ==
    LET Residual(x) == FrobSq(MatSub(MatMul(WEmb, x), BEmb))
        Least(S) == CHOOSE v \in S : \A u \in S : v <= u
        solutions == { x \in BoxVectors(WEmb.w) : MatMul(WEmb, x) = BEmb }
    IN  IF WEmb.h >= WEmb.w
        THEN LET least == Least({ Residual(x) : x \in BoxVectors(WEmb.w) })
             IN  { x \in BoxVectors(WEmb.w) : Residual(x) = least }
        ELSE LET least == Least({ FrobSq(x) : x \in solutions })
             IN  { x \in solutions : FrobSq(x) = least }

\* X: XEmb itself when m >= n; its first n rows otherwise, copied (sparse)
\* or added by UpdateLocal to the X the caller passed (distributed)
TikhonovX(kind, W, XEmb, XPre, commSize) ==
    IF W.h >= W.w THEN XEmb
    ELSE IF kind = "sparse" THEN TopRows(XEmb, W.w, XEmb.w)
    ELSE Unpacked(XPre, Packed(XEmb, W.w, XPre.h, commSize), commSize)

\* Tikhonov( orientation, A, B, G, X, ctrl ) with the solution xEmb that
\* LeastSquares returned
Tikhonov(kind, orientation, A, B, G, XPre, commSize, xEmb) ==
    LET W == TikhonovW(orientation, A)
        WEmb == TikhonovWEmb(W, G)
        BEmb == TikhonovBEmb(kind, W, WEmb, B, commSize)
    IN  [op |-> "Tikhonov", kind |-> kind, orientation |-> orientation,
         A |-> A, B |-> B, G |-> G, commSize |-> commSize,
         W |-> W, WEmb |-> WEmb, BEmb |-> BEmb, XEmb |-> xEmb,
         X |-> TikhonovX(kind, W, xEmb, XPre, commSize)]

\* the inputs: a small 0/1 matrix A, one right-hand side conforming with
\* op(A), G = gamma I of the size that conforms with W
TikhonovMatrices == UNION { { [h |-> h, w |-> w, e |-> f] : f \in [Idx(h, w) -> {0, 1}] } :
                            <<h, w>> \in (1 .. MaxTikDim) \X (1 .. MaxTikDim) }

TikhonovRHS(m) == { [h |-> m, w |-> 1, e |-> f] : f \in [Idx(m, 1) -> 0 .. MaxTikRHS] }

ScaledIdentity(k, gamma) == [h |-> k, w |-> k, e |-> [ij \in Idx(k, k) |-> IF ij[1] = ij[2] THEN gamma ELSE 0]]

DoTikhonov(kind, sizes) ==
    /\ kernel = NoKernel
    /\ \E orientation \in {"NORMAL", "TRANSPOSE", "ADJOINT"}, A \in TikhonovMatrices,
          gamma \in 1 .. MaxTikGamma, commSize \in sizes :
         LET W == TikhonovW(orientation, A)
             G == ScaledIdentity(Min(W.h, W.w), gamma)
         IN  \E B \in TikhonovRHS(W.h) :
               LET WEmb == TikhonovWEmb(W, G)
                   BEmb == TikhonovBEmb(kind, W, WEmb, B, commSize)
               IN  \E xEmb \in LeastSquares(WEmb, BEmb) :
                     kernel' = Tikhonov(kind, orientation, A, B, G, Zeros(W.w, 1), commSize, xEmb)
    /\ UNCHANGED <<debug, this, call, nops>>

DoTikhonovSparse == DoTikhonov("sparse", {1})

DoTikhonovDistSparse == DoTikhonov("dist", 1 .. MaxTikProcs)

\* a finished kernel is forgotten before the next one is run
ForgetKernel ==
    /\ kernel # NoKernel
    /\ kernel' = NoKernel
    /\ UNCHANGED <<debug, this, call, nops>>

\* ----------------------------------------------------------------------- EN
\* FillDiagonal( A, alpha ) on the view A( IR(lo,hi), IR(lo,hi) ) of M
FillDiagonalOf(M, lo, hi, alpha) ==
    [M EXCEPT !.e = [ij \in Idx(M.h, M.w) |->
        IF ij[1] = ij[2] /\ lo <= ij[1] /\ ij[1] < hi THEN alpha ELSE M.e[ij]]]

\* a sparse matrix after MakeConsistent(): entry (i,j) is the sum of the
\* updates queued for (i,j); queue[k] = <<i, j, value>> for k in 0 .. count-1
MakeConsistent(h, w, queue, count) ==
    [h |-> h, w |-> w,
     e |-> [ij \in Idx(h, w) |->
              SumOver([k \in 0 .. (count - 1) |->
                         IF queue[k][1] = ij[1] /\ queue[k][2] = ij[2] THEN queue[k][3] ELSE 0],
                      0, count)]]

\* every queued update addresses an entry of the h x w matrix
QueueInRange(h, w, queue, count) ==
    \A k \in 0 .. (count - 1) : queue[k][1] < h /\ queue[k][2] < w

\* EN(Matrix) and EN(AbstractDistMatrix): Zeros( Q, 2n+m, 2n+m ), the top
\* left 2n x 2n block gets the diagonal 2*lambda2, Q( rInd, rInd ) gets 1
ENQDense(m, n, lambda2) ==
    FillDiagonalOf(FillDiagonalOf(Zeros(2 * n + m, 2 * n + m), 0, 2 * n, 2 * lambda2),
                   2 * n, 2 * n + m, 1)

\* EN(SparseMatrix): 2n updates (e,e,2*lambda2), then m updates
\* (2n+e,2n+e,1)
ENQSparse(m, n, lambda2) ==
    MakeConsistent(2 * n + m, 2 * n + m,
                   [k \in 0 .. (2 * n + m - 1) |->
                      IF k < 2 * n THEN <<k, k, 2 * lambda2>> ELSE <<k, k, 1>>],
                   2 * n + m)

\* EN(DistSparseMatrix): every process queues, for each of its local rows i,
\* (i,i,2*lambda2) if i < 2n and (i,i,2) otherwise
ENQDistSparse(m, n, lambda2, commSize) ==
    LET H == 2 * n + m
        owned(q, i) == /\ FirstLocalRow(H, commSize, q) <= i
                       /\ i < FirstLocalRow(H, commSize, q) + MultiVecLocalHeight(H, commSize, q)
    IN  [h |-> H, w |-> H,
         e |-> [ij \in Idx(H, H) |->
                  IF ij[1] = ij[2] /\ \E q \in 0 .. (commSize - 1) : owned(q, ij[1])
                  THEN IF ij[1] < 2 * n THEN 2 * lambda2 ELSE 2
                  ELSE 0]]

ENQ(kind, m, n, lambda2, commSize) ==
    IF kind \in {"dense", "dist"} THEN ENQDense(m, n, lambda2)
    ELSE IF kind = "sparse" THEN ENQSparse(m, n, lambda2)
    ELSE ENQDistSparse(m, n, lambda2, commSize)

\* c := lambda_1*[1;1;0]
ENc(m, n, lambda1) ==
    [h |-> 2 * n + m, w |-> 1, e |-> [ij \in Idx(2 * n + m, 1) |-> IF ij[1] < 2 * n THEN lambda1 ELSE 0]]

\* \hat A := [A, -A, I]
ENAHat(A, m, n) ==
    [h |-> m, w |-> 2 * n + m,
     e |-> [ij \in Idx(m, 2 * n + m) |->
              IF ij[2] < n THEN A.e[ij]
              ELSE IF ij[2] < 2 * n THEN -A.e[<<ij[1], ij[2] - n>>]
              ELSE IF ij[2] - 2 * n = ij[1] THEN 1 ELSE 0]]

\* the number of diagonal updates queued for G: EN(SparseMatrix) loops over
\* e < 2*m, the other variants cover the 2n rows of G
ENGCount(kind, m, n) == IF kind = "sparse" THEN 2 * m ELSE 2 * n

ENGQueue(kind, m, n) == [k \in 0 .. (ENGCount(kind, m, n) - 1) |-> <<k, k, -1>>]

\* G: Zeros( G, 2n, 2n+m ) with -1 on the queued diagonal entries that lie
\* inside it
ENG(kind, m, n) ==
    MakeConsistent(2 * n, 2 * n + m, ENGQueue(kind, m, n), ENGCount(kind, m, n))

\* the vectors QP may return: QP is a solver outside this development, and
\* what EN does with xHat does not depend on its optimality
ENxHats(m, n) == { [h |-> 2 * n + m, w |-> 1, e |-> f] : f \in [Idx(2 * n + m, 1) -> 0 .. MaxENSol] }

\* EN(DistSparseMatrix), x := u - v.  The local rows of a DistMultiVec of
\* the given height on process q
ENLocalRows(height, commSize, q) ==
    { FirstLocalRow(height, commSize, q) + iLoc :
        iLoc \in 0 .. (MultiVecLocalHeight(height, commSize, q) - 1) }

\* the rows of xHat the two loops of process q get to: they leave at the
\* first local row i >= 2n
ENVisited(m, n, commSize, q) ==
    { i \in ENLocalRows(2 * n + m, commSize, q) :
        \A r \in ENLocalRows(2 * n + m, commSize, q) : r <= i => r < 2 * n }

\* faulty variant: the owner of row i of x, whatever i
ENOwnerOfRowItself(n, commSize, i) == MultiVecRowOwner(n, commSize, i)

\* x.RowOwner(i) for i < n, x.RowOwner(i-n) for n <= i < 2n
ENOwner(n, commSize, i) ==
    MultiVecRowOwner(n, commSize, IF i < n THEN i ELSE i - n)

\* sendCounts of process q after the counting loop
ENSendCounts(m, n, commSize, q) ==
    [d \in 0 .. (commSize - 1) |->
        Cardinality({ i \in ENVisited(m, n, commSize, q) : ENOwner(n, commSize, i) = d })]

\* recvCounts of process q after mpi::AllToAll( sendCounts, 1, recvCounts, 1 )
ENRecvCounts(m, n, commSize, q) ==
    [src \in 0 .. (commSize - 1) |-> ENSendCounts(m, n, commSize, src)[q]]

\* Scan( counts, offs ): the exclusive prefix sums; its result is the total
Scan(counts, commSize) == [d \in 0 .. commSize |-> SumOver(counts, 0, d)]

\* sendBuf of process q after the pack loop: the entry of row i is written
\* at offs[owner], which started at sendOffs[owner] and was advanced by
\* every earlier row of the same owner
ENPacked(xHat, m, n, commSize, q) ==
    { [slot  |-> Scan(ENSendCounts(m, n, commSize, q), commSize)[ENOwner(n, commSize, i)]
                 + Cardinality({ r \in ENVisited(m, n, commSize, q) :
                                   r < i /\ ENOwner(n, commSize, r) = ENOwner(n, commSize, i) }),
       row   |-> i,
       index |-> IF i < n THEN i ELSE i - n,
       value |-> IF i < n THEN xHat.e[<<i, 0>>] ELSE -xHat.e[<<i, 0>>],
       owner |-> ENOwner(n, commSize, i)] : i \in ENVisited(m, n, commSize, q) }

\* recvBuf of process q after the mpi::AllToAll of the buffers: from every
\* process src the sendCounts[q] slots of its sendBuf that start at its
\* sendOffs[q], placed at recvOffs[src]
ENReceived(xHat, m, n, commSize, q) ==
    UNION { { [slot  |-> Scan(ENRecvCounts(m, n, commSize, q), commSize)[src]
                          + (t.slot - Scan(ENSendCounts(m, n, commSize, src), commSize)[q]),
               row   |-> t.row, index |-> t.index, value |-> t.value, from |-> src] :
                t \in { u \in ENPacked(xHat, m, n, commSize, src) :
                          /\ Scan(ENSendCounts(m, n, commSize, src), commSize)[q] <= u.slot
                          /\ u.slot < Scan(ENSendCounts(m, n, commSize, src), commSize)[q]
                                      + ENSendCounts(m, n, commSize, src)[q] } } :
            src \in 0 .. (commSize - 1) }

\* an entry received by q addresses a local row of x that q does not hold
ENUnpackOutside(msgs, n, commSize, q) ==
    \E t \in msgs :
        \/ t.index - FirstLocalRow(n, commSize, q) < 0
        \/ t.index - FirstLocalRow(n, commSize, q) >= MultiVecLocalHeight(n, commSize, q)

\* Zeros( x, n, 1 ), then every process adds, for e < totalRecv, the value
\* of recvBuf[e] to its local row index - FirstLocalRow(); recv[q] is the
\* recvBuf of process q
ENUnpacked(recv, m, n, commSize) ==
    [h |-> n, w |-> 1,
     e |-> [ij \in Idx(n, 1) |->
              LET q == MultiVecRowOwner(n, commSize, ij[1])
                  total == Scan(ENRecvCounts(m, n, commSize, q), commSize)[commSize]
              IN  SumOver([e \in 0 .. (total - 1) |->
                             IF \E t \in recv[q] : t.slot = e /\ t.index = ij[1]
                             THEN (CHOOSE t \in recv[q] : t.slot = e /\ t.index = ij[1]).value
                             ELSE 0],
                          0, total)]]

\* recvBuf on every process
ENExchanged(xHat, m, n, commSize) ==
    [q \in 0 .. (commSize - 1) |-> ENReceived(xHat, m, n, commSize, q)]

\* x := u - v
ENx(kind, xHat, m, n, commSize) ==
    IF kind = "distSparse"
    THEN ENUnpacked(ENExchanged(xHat, m, n, commSize), m, n, commSize)
    ELSE [h |-> n, w |-> 1, e |-> [ij \in Idx(n, 1) |-> xHat.e[ij] - xHat.e[<<ij[1] + n, 0>>]]]

\* EN( A, b, lambda1, lambda2, x, ctrl ), QP having returned xHat; a queued
\* update outside the matrix is undefined behaviour
EN(kind, A, lambda1, lambda2, commSize, xHat) ==
    LET m == A.h
        n == A.w
    IN  [op |-> "EN", kind |-> kind, m |-> m, n |-> n, A |-> A,
         lambda1 |-> lambda1, lambda2 |-> lambda2, commSize |-> commSize,
         Q |-> ENQ(kind, m, n, lambda2, commSize),
         c |-> ENc(m, n, lambda1),
         AHat |-> ENAHat(A, m, n),
         G |-> ENG(kind, m, n),
         gQueued |-> ENGCount(kind, m, n),
         h |-> Zeros(2 * n, 1),
         out |-> IF /\ QueueInRange(2 * n, 2 * n + m, ENGQueue(kind, m, n), ENGCount(kind, m, n))
                    /\ kind = "distSparse" =>
                          \A q \in 0 .. (commSize - 1) :
                             ~ENUnpackOutside(ENReceived(xHat, m, n, commSize, q), n, commSize, q)
                 THEN "ok" ELSE "undefined",
         xHat |-> xHat,
         sendCounts |-> [q \in 0 .. (commSize - 1) |->
                           IF kind = "distSparse" THEN ENSendCounts(m, n, commSize, q)
                           ELSE [d \in 0 .. (commSize - 1) |-> 0]],
         recvCounts |-> [q \in 0 .. (commSize - 1) |->
                           IF kind = "distSparse" THEN ENRecvCounts(m, n, commSize, q)
                           ELSE [d \in 0 .. (commSize - 1) |-> 0]],
         sent |-> [q \in 0 .. (commSize - 1) |->
                     IF kind = "distSparse" THEN ENPacked(xHat, m, n, commSize, q) ELSE {}],
         received |-> [q \in 0 .. (commSize - 1) |->
                         IF kind = "distSparse" THEN ENReceived(xHat, m, n, commSize, q) ELSE {}],
         x |-> ENx(kind, xHat, m, n, commSize)]

\* the inputs: A of any size up to the bounds, with entries 0 or distinct
ENMatrices == { [h |-> m, w |-> n, e |-> [ij \in Idx(m, n) |-> FillVal(s, ij[1], ij[2])]] :
                  <<m, n, s>> \in (0 .. MaxENRows) \X (0 .. MaxENCols) \X FillSeeds }

DoEN(kind, sizes) ==
    /\ kernel = NoKernel
    /\ \E A \in ENMatrices, lambda1 \in 0 .. 1, lambda2 \in 0 .. MaxLambda, commSize \in sizes :
         \E xHat \in ENxHats(A.h, A.w) :
           kernel' = EN(kind, A, lambda1, lambda2, commSize, xHat)
    /\ UNCHANGED <<debug, this, call, nops>>

DoENDense == DoEN("dense", {1})

DoENDist == DoEN("dist", 1 .. MaxENProcs)

DoENSparse == DoEN("sparse", {1})

DoENDistSparse == DoEN("distSparse", 1 .. MaxENProcs)

\* ---------------------------------------------------------------------- LLL
\* Exact arithmetic.  A rational is <<p, q>> with q > 0 in lowest terms.  An
\* entry of R is kept as [c, b], standing for the real number c * sqrt(b)
\* with c and b rational and b >= 0: the diagonal entry R(i,i) = || b_i* || is
\* [1, || b_i* ||^2], and R(i,j) = mu(j,i) * R(i,i) is [mu(j,i), R(i,i)^2].
Abs(a) == IF a < 0 THEN -a ELSE a

Rat(p, q) ==
    LET s == IF q < 0 THEN -1 ELSE 1
        g == GCD(Abs(p), Abs(q))
    IN  <<(s * p) \div g, (s * q) \div g>>

RInt(a) == <<a, 1>>

RAdd(x, y) == Rat(x[1] * y[2] + y[1] * x[2], x[2] * y[2])

RSub(x, y) == Rat(x[1] * y[2] - y[1] * x[2], x[2] * y[2])

RMul(x, y) == Rat(x[1] * y[1], x[2] * y[2])

RDiv(x, y) == Rat(x[1] * y[2], x[2] * y[1])

RLeq(x, y) == x[1] * y[2] <= y[1] * x[2]

RLess(x, y) == x[1] * y[2] < y[1] * x[2]

RECURSIVE RSumOver(_, _, _)
\* sum of the rationals f[k] for k in lo .. hi-1
RSumOver(f, lo, hi) == IF lo >= hi THEN RInt(0) ELSE RAdd(f[lo], RSumOver(f, lo + 1, hi))

\* Round( chi ): to the nearest integer, halves away from zero
Round(x) ==
    IF x[1] >= 0 THEN (2 * x[1] + x[2]) \div (2 * x[2])
    ELSE -((2 * (-x[1]) + x[2]) \div (2 * x[2]))

\* Abs( chi ) > ctrl.eta, where eta = 1/2 + eps^0.9 lies above 1/2 and below
\* every other rational of the magnitudes that occur
ExceedsEta(x) == 2 * Abs(x[1]) > x[2]

\* column j of an integer matrix, as a vector of rationals
ColOf(M, j) == [i \in 0 .. (M.h - 1) |-> RInt(M.e[<<i, j>>])]

RDot(u, v, m) == RSumOver([i \in 0 .. (m - 1) |-> RMul(u[i], v[i])], 0, m)

\* blas::Nrm2 squared
NormSq(M, j) == SumOver([i \in 0 .. (M.h - 1) |-> M.e[<<i, j>>] * M.e[<<i, j>>]], 0, M.h)

\* ColSwap( B, i, j )
ColSwap(M, i, j) ==
    [M EXCEPT !.e = [ab \in Idx(M.h, M.w) |->
        IF ab[2] = i THEN M.e[<<ab[1], j>>]
        ELSE IF ab[2] = j THEN M.e[<<ab[1], i>>]
        ELSE M.e[ab]]]

\* Zero( b ) on column j
ZeroCol(M, j) == [M EXCEPT !.e = [ab \in Idx(M.h, M.w) |-> IF ab[2] = j THEN 0 ELSE M.e[ab]]]

\* blas::Axpy( m, -chi, column i, column k ) on an integer matrix
AxpyCol(M, chi, i, k) ==
    [M EXCEPT !.e = [ab \in Idx(M.h, M.w) |->
        IF ab[2] = k THEN M.e[ab] - chi * M.e[<<ab[1], i>>] ELSE M.e[ab]]]

\* blas::Gemv( 'N', m, k, -1, M(:,0:k), x, +1, M(:,k) )
GemvCol(M, x, k) ==
    [M EXCEPT !.e = [ab \in Idx(M.h, M.w) |->
        IF ab[2] = k
        THEN M.e[ab] - SumOver([i \in 0 .. (k - 1) |-> x[i] * M.e[<<ab[1], i>>]], 0, k)
        ELSE M.e[ab]]]

Identity(n) == [h |-> n, w |-> n, e |-> [ab \in Idx(n, n) |-> IF ab[1] = ab[2] THEN 1 ELSE 0]]

\* an entry of R: c * sqrt(b)
REntry(c, b) == [c |-> c, b |-> b]

RZero == REntry(RInt(0), RInt(0))

\* the square of an entry of R
RSq(x) == RMul(RMul(x.c, x.c), x.b)

\* The block Householder transform I - V inv(S) V^H built from the first k
\* columns maps them onto R; in exact arithmetic its k'th reflector is
\* determined by the part of column k that is orthogonal to the columns
\* before it, which is what V[k] holds here.

\* ExpandBlockQR( k, B, QR, V, SInv, d ): column k of QR := the first
\* Min(k,minDim) reflectors applied to column k of B; 'tail' is what is left
\* of the column below row Min(k,minDim)
ExpandBlockQR(s, k) ==
    LET numReflect == Min(k, Min(s.m, s.n))
        b == ColOf(s.B, k)
        coef == [i \in 0 .. (numReflect - 1) |->
                   RDiv(RDot(b, s.V[i], s.m), s.QR[<<i, i>>].b)]
    IN  [s |-> [s EXCEPT !.QR = [ij \in Idx(s.m, s.n) |->
                    IF ij[2] # k THEN s.QR[ij]
                    ELSE IF ij[1] < numReflect
                         THEN REntry(coef[ij[1]], s.QR[<<ij[1], ij[1]>>].b)
                         ELSE RZero]],
         tail |-> [i \in 0 .. (s.m - 1) |->
                     RSub(b[i], RSumOver([j \in 0 .. (numReflect - 1) |->
                                            RMul(coef[j], s.V[j][i])], 0, numReflect))]]

\* BlockHouseholderStep( k, QR, V, SInv, t, d ): nothing for k >= minDim;
\* otherwise QR(k,k) becomes the norm of the tail (made non-negative through
\* d) and the k'th column of V is formed
BlockHouseholderStep(s, k, tail) ==
    IF k >= Min(s.m, s.n) THEN s
    ELSE [s EXCEPT !.QR[<<k, k>>] = REntry(RInt(1), RDot(tail, tail, s.m)),
                   !.V[k] = tail]

\* blas::Axpy( i+1, -chi, QR(:,i), QR(:,k) ): rows 0 .. i of column k
AxpyQR(QR, chi, i, k) ==
    [ij \in DOMAIN QR |->
        IF ij[2] = k /\ ij[1] <= i
        THEN REntry(RSub(QR[ij].c, RMul(RInt(chi), QR[<<ij[1], i>>].c)), QR[<<ij[1], i>>].b)
        ELSE QR[ij]]

RECURSIVE SizeReduce(_, _, _, _)
\* the loop i = k-1, ..., 0 of the normal variant: the rounded coefficients
\* xBuf and the column k of QR they leave
SizeReduce(QR, k, i, xBuf) ==
    IF i < 0 THEN [QR |-> QR, xBuf |-> xBuf]
    ELSE LET chi == RDiv(QR[<<i, k>>].c, QR[<<i, i>>].c)
         IN  IF ExceedsEta(chi)
             THEN SizeReduce(AxpyQR(QR, Round(chi), i, k), k, i - 1,
                             [xBuf EXCEPT ![i] = Round(chi)])
             ELSE SizeReduce(QR, k, i - 1, [xBuf EXCEPT ![i] = 0])

\* if( formU ) blas::Gemv( 'N', n, k, -1, U, xBuf, +1, U(:,k) )
GemvU(s, x, k) ==
    IF s.formU THEN GemvCol(s.U, x, k) ELSE s.U

\* the swap is not applied to U
ColSwapUSkipped(s, i, j) == s.U

\* if( formU ) ColSwap( U, i, j )
ColSwapU(s, i, j) ==
    IF s.formU THEN ColSwap(s.U, i, j) ELSE s.U

\* the rounding of column k inside BlockStep
Rounded(s, k) ==
    IF s.variant = "LLL_WEAK"
    THEN IF RLess(RInt(s.zeroTolSq), RSq(s.QR[<<k - 1, k - 1>>]))
         THEN LET chi == RDiv(s.QR[<<k - 1, k>>].c, s.QR[<<k - 1, k - 1>>].c)
              IN  IF ExceedsEta(chi)
                  THEN [s EXCEPT !.QR = AxpyQR(s.QR, Round(chi), k - 1, k),
                                 !.B = AxpyCol(s.B, Round(chi), k - 1, k),
                                 !.U = IF s.formU THEN AxpyCol(s.U, Round(chi), k - 1, k) ELSE s.U,
                                 !.rounded = @ \/ Round(chi) # 0]
                  ELSE s
         ELSE s
    ELSE LET r == SizeReduce(s.QR, k, k - 1, [i \in 0 .. (k - 1) |-> 0])
         IN  [s EXCEPT !.QR = r.QR,
                       !.B = GemvCol(s.B, r.xBuf, k),
                       !.U = GemvU(s, r.xBuf, k),
                       !.rounded = @ \/ \E i \in 0 .. (k - 1) : r.xBuf[i] # 0]

\* the column k of B is deemed zero: it and column k of QR are zeroed
Zeroed(s, k) ==
    [s EXCEPT !.B = ZeroCol(s.B, k),
              !.QR = [ij \in Idx(s.m, s.n) |-> IF ij[2] = k THEN RZero ELSE s.QR[ij]],
              !.forced = @ \/ NormSq(s.B, k) > 0]

RECURSIVE BlockStep(_, _)
\* BlockStep( k, B, U, QR, V, SInv, t, d, formU, ctrl ) with
\* ctrl.reorthogTol = 0: the state it leaves and whether the new vector is
\* a zero vector
BlockStep(s, k) ==
    LET e == ExpandBlockQR(s, k)
    IN  IF NormSq(s.B, k) <= s.zeroTolSq
        THEN [s |-> Zeroed(e.s, k), zeroVector |-> TRUE]
        ELSE LET r == Rounded(e.s, k)
             IN  IF NormSq(r.B, k) > 0
                 THEN [s |-> BlockHouseholderStep(r, k, e.tail), zeroVector |-> FALSE]
                 ELSE BlockStep(r, k)

\* a column deemed zero is moved behind the columns still in play
Retired(s, k) ==
    [s EXCEPT !.B = ColSwap(s.B, k, (s.n - 1) - s.nullity),
              !.U = ColSwapU(s, k, (s.n - 1) - s.nullity),
              !.nullity = @ + 1,
              !.numSwaps = @ + 1]

RECURSIVE FirstColumn(_)
\* the loop that (re)initialises column 0: the first step of Householder
\* reduction, repeated while the column is deemed zero and columns remain
FirstColumn(s) ==
    LET e == ExpandBlockQR(s, 0)
        h == BlockHouseholderStep(e.s, 0, e.tail)
    IN  IF RLeq(RSq(h.QR[<<0, 0>>]), RInt(s.zeroTolSq))
        THEN LET z == Retired(Zeroed(h, 0), 0)
             IN  IF z.nullity >= z.n THEN z ELSE FirstColumn(z)
        ELSE h

\* ctrl.delta
Delta == <<3, 4>>

\* leftTerm <= rightTerm && rho_k_k > ctrl.zeroTol, all three being
\* non-negative
LovaszTest(rho_km1_km1, rho_km1_k, rho_k_k, zeroTolSq) ==
    /\ RLeq(RMul(Delta, RSq(rho_km1_km1)), RAdd(RSq(rho_k_k), RSq(rho_km1_k)))
    /\ RLess(RInt(zeroTolSq), RSq(rho_k_k))

\* what QR.GetRealPart(k,k) can yield: the entry, or, for k >= m, where QR
\* has no row k, whatever lies behind the buffer (a release build)
RhoKK(s, k) ==
    IF k < s.m THEN {s.QR[<<k, k>>]}
    ELSE {REntry(RInt(g), RInt(1)) : g \in 0 .. MaxGarbage}

\* the else branch of the main loop: numSwaps, the swap of columns k-1 and
\* k, and either the reinitialisation of column 0 or the step back
SwappedBack(s, k) ==
    LET w == [s EXCEPT !.numSwaps = @ + 1,
                       !.B = ColSwap(s.B, k - 1, k),
                       !.U = ColSwapU(s, k - 1, k),
                       !.swapped = TRUE]
    IN  IF k = 1 THEN FirstColumn(w) ELSE [w EXCEPT !.k = k - 1, !.stepped = TRUE]

\* the state of BlockedAlg after Zeros( QR, m, n ), ..., nullity = 0,
\* numSwaps = 0; the flags record what the run has done so far
BlockedAlgStart(B, U, formU, variant, zeroTolSq) ==
    [op |-> "LLL", out |-> "running", m |-> B.h, n |-> B.w,
     formU |-> formU, variant |-> variant, zeroTolSq |-> zeroTolSq,
     BIn |-> B, B |-> B, U |-> U,
     QR |-> [ij \in Idx(B.h, B.w) |-> RZero],
     V |-> [i \in 0 .. (Min(B.h, B.w) - 1) |-> [j \in 0 .. (B.h - 1) |-> RInt(0)]],
     k |-> 1, nullity |-> 0, numSwaps |-> 0,
     rounded |-> FALSE, forced |-> FALSE, swapped |-> FALSE, stepped |-> FALSE,
     outside |-> FALSE]

\* the bases handed to BlockedAlg: every integer matrix of the sizes of
\* LLLDims, small ones with entries of both signs
LLLDims == { d \in (1 .. MaxLLLDim) \X (1 .. MaxLLLDim) : d[2] <= d[1] + 1 /\ d[1] <= d[2] + 1 }

LLLEntries(d) == IF d[1] * d[2] <= MaxLLLDim + 1 THEN (-1) .. MaxLLLEntry ELSE 0 .. 1

LLLBases == UNION { { [h |-> d[1], w |-> d[2], e |-> f] : f \in [Idx(d[1], d[2]) -> LLLEntries(d)] } :
                    d \in LLLDims }

\* ctrl.zeroTol squared: below every non-zero norm that occurs, or 1
ZeroTolSqs == {0, 1}

\* BlockedAlg up to the main loop; U is the identity the caller formed
BlockedAlgBegin ==
    /\ kernel = NoKernel
    /\ \E B \in LLLBases, formU \in BOOLEAN, variant \in {"LLL_WEAK", "LLL_NORMAL"},
          zeroTolSq \in ZeroTolSqs, jumpstart \in BOOLEAN :
         LET U == IF formU THEN Identity(B.w) ELSE EmptyLocal
             start == BlockedAlgStart(B, U, formU, variant, zeroTolSq)
         IN  /\ jumpstart => (formU /\ variant = "LLL_NORMAL" /\ zeroTolSq = 0)
             /\ kernel' = IF jumpstart THEN [start EXCEPT !.out = "LogicError"]
                           ELSE FirstColumn(start)
    /\ UNCHANGED <<debug, this, call, nops>>

\* one iteration of `while( k < n-nullity )`
BlockedAlgIterate ==
    /\ kernel.op = "LLL"
    /\ kernel.out = "running"
    /\ kernel.k < kernel.n - kernel.nullity
    /\ LET k == kernel.k
           r == BlockStep(kernel, k)
       IN  IF r.zeroVector
           THEN kernel' = Retired(r.s, k)
           ELSE IF k >= kernel.m /\ debug
           THEN kernel' = [r.s EXCEPT !.out = "LogicError", !.outside = TRUE]
           ELSE \E rho_k_k \in RhoKK(r.s, k) :
                  LET t == [r.s EXCEPT !.outside = @ \/ k >= kernel.m]
                  IN  kernel' =
                        IF LovaszTest(t.QR[<<k - 1, k - 1>>], t.QR[<<k - 1, k>>], rho_k_k, t.zeroTolSq)
                        THEN [t EXCEPT !.k = k + 1]
                        ELSE SwappedBack(t, k)
    /\ UNCHANGED <<debug, this, call, nops>>

\* the loop is left and info is returned
BlockedAlgReturn ==
    /\ kernel.op = "LLL"
    /\ kernel.out = "running"
    /\ ~(kernel.k < kernel.n - kernel.nullity)
    /\ kernel' = [kernel EXCEPT !.out = "returned"]
    /\ UNCHANGED <<debug, this, call, nops>>

\* --------------------------------------------------------------------- trmm
\* the factor of the routing test of trmm::RLN
RouteFactor == 5

\* the values of El::Blocksize()
TrmmBlocksizes == {1, 2}

\* the values of Max( g.Height(), g.Width() )
TrmmRatios == {1, 2}

\* entry (i,j) of a view of L: a view that reaches outside L is not checked
\* in a release build and reads whatever lies there
ViewEntry(L, i, j, g) == IF i < L.h /\ j < L.w THEN L.e[<<i, j>>] ELSE g

\* D11 = L11; MakeTrapezoidal( LOWER, D11 ) skipped
D11Full(L, diag, i, j, g) ==
    IF i = j /\ diag = "UNIT" THEN 1 ELSE ViewEntry(L, i, j, g)

\* D11 = L11; MakeTrapezoidal( LOWER, D11 ); if( diag == UNIT ) SetDiagonal( D11, T(1) )
\* as entry (i,j) of L
D11(L, diag, i, j, g) ==
    IF i < j THEN 0
    ELSE IF i = j /\ diag = "UNIT" THEN 1
    ELSE ViewEntry(L, i, j, g)

\* the rows [lo,hi) of X
RowBlock(X, lo, hi) ==
    [h |-> hi - lo, w |-> X.w, e |-> [ij \in Idx(hi - lo, X.w) |-> X.e[<<lo + ij[1], ij[2]>>]]]

\* trmm::LocalAccumulateRLN( TRANSPOSE, diag, 1, L, X, ZTrans ) on a zeroed
\* ZTrans of height m: for the block [kb,kb+nbb) that holds row c of ZTrans,
\* Z1Trans += D11^T X1^T + L21^T X2^T
LocalAccumulateRLN(diag, L, X, m, step, g) ==
    [h |-> m, w |-> X.h,
     e |-> [cr \in Idx(m, X.h) |->
        LET c == cr[1]
            r == cr[2]
            kb == (c \div step) * step
            nbb == Min(step, m - kb)
        IN  SumOver([i \in kb .. (kb + nbb - 1) |-> X.e[<<r, i>>] * D11(L, diag, i, c, g)],
                    kb, kb + nbb)
            + SumOver([i \in (kb + nbb) .. (m - 1) |-> X.e[<<r, i>>] * ViewEntry(L, i, c, g)],
                      kb + nbb, m)]]

\* the Nonconformal test of LocalAccumulateRLN
AccumulateNonconformal(L, X, ZTransHeight) ==
    L.h # L.w \/ L.h # X.w \/ L.h # ZTransHeight

\* the Nonconformal test of RLNC
RLNCNonconformal(L, X) == L.h # L.w \/ X.w # L.h

\* the route of trmm::RLN
RLNRoute(L, X) == IF L.h > RouteFactor * X.h THEN "A" ELSE "C"

\* the positions of the rows [lo,hi) of an m x n matrix, and of its columns
RowsOf(m, n, lo, hi) == { ij \in Idx(m, n) : ij[1] >= lo /\ ij[1] < hi }

ColsOf(m, n, lo, hi) == { ij \in Idx(m, n) : ij[2] >= lo /\ ij[2] < hi }

\* the entry points: trmm::RLN, and trmm::RLNA and trmm::RLNC called directly
TrmmEntries == {"RLN", "RLNA", "RLNC"}

TrmmStart(entry, diag, L, X, bsize, ratio, g, dbg) ==
    LET route == IF entry = "RLN" THEN RLNRoute(L, X)
                 ELSE IF entry = "RLNA" THEN "A" ELSE "C"
    IN  [op |-> "RLN", entry |-> entry, route |-> route, diag |-> diag,
         L |-> L, X0 |-> X, X |-> X, m |-> X.h, n |-> X.w, k |-> 0,
         bsize |-> bsize, ratio |-> ratio, g |-> g,
         over |-> [ij \in Idx(X.h, X.w) |-> 0],
         acc |-> [ij \in Idx(X.h, X.w) |-> 0],
         fresh |-> TRUE, ranges |-> << >>, redists |-> 0, outside |-> FALSE,
         out |-> IF route = "C" /\ dbg /\ RLNCNonconformal(L, X)
                 THEN "LogicError" ELSE "running"]

\* one iteration of the loop of RLNA: the row block [k,k+nb) of X
RLNAStep(K, dbg) ==
    LET nb == Min(K.bsize, K.m - K.k)
        X1 == RowBlock(K.X, K.k, K.k + nb)
        ZTrans == LocalAccumulateRLN(K.diag, K.L, X1, K.n, K.ratio * K.bsize, K.g)
        Z == Transpose(ZTrans)
        blk == RowsOf(K.m, K.n, K.k, K.k + nb)
    IN  IF dbg /\ AccumulateNonconformal(K.L, X1, K.n)
        THEN [K EXCEPT !.redists = @ + 2, !.out = "LogicError"]
        ELSE [K EXCEPT
                !.X = [@ EXCEPT !.e = [ij \in Idx(K.m, K.n) |->
                          IF ij \in blk THEN Z.e[<<ij[1] - K.k, ij[2]>>] ELSE K.X.e[ij]]],
                !.fresh = @ /\ \A ij \in blk : K.over[ij] = 0 /\ K.acc[ij] = 0,
                !.over = [ij \in Idx(K.m, K.n) |-> IF ij \in blk THEN @[ij] + 1 ELSE @[ij]],
                !.ranges = Append(@, <<K.k, K.k + nb>>),
                !.redists = @ + 3,
                !.outside = @ \/ K.n > K.L.h \/ K.n > K.L.w,
                !.k = K.k + nb]

\* one iteration of the loop of RLNC: the column block [k,k+nb) of X
RLNCStep(K) ==
    LET nb == Min(K.bsize, K.n - K.k)
        blk == ColsOf(K.m, K.n, K.k, K.k + nb)
        left == ColsOf(K.m, K.n, 0, K.k)
    IN  [K EXCEPT
            !.X = [@ EXCEPT !.e = [ij \in Idx(K.m, K.n) |->
                      IF ij \in left
                      THEN K.X.e[ij]
                           + SumOver([i \in K.k .. (K.k + nb - 1) |->
                                        K.X.e[<<ij[1], i>>] * ViewEntry(K.L, i, ij[2], K.g)],
                                     K.k, K.k + nb)
                      ELSE IF ij \in blk
                      THEN SumOver([i \in ij[2] .. (K.k + nb - 1) |->
                                      K.X.e[<<ij[1], i>>] * D11(K.L, K.diag, i, ij[2], K.g)],
                                   ij[2], K.k + nb)
                      ELSE K.X.e[ij]]],
            !.fresh = @ /\ \A ij \in blk : K.over[ij] = 0 /\ K.acc[ij] = 0,
            !.over = [ij \in Idx(K.m, K.n) |-> IF ij \in blk THEN @[ij] + 1 ELSE @[ij]],
            !.acc = [ij \in Idx(K.m, K.n) |-> IF ij \in left THEN @[ij] + 1 ELSE @[ij]],
            !.ranges = Append(@, <<K.k, K.k + nb>>),
            !.redists = @ + 5,
            !.outside = @ \/ K.k + nb > K.L.h \/ K.k + nb > K.L.w,
            !.k = K.k + nb]

\* the operands of a call
MaxTrmmRows == 2

MaxTrmmSeed == 2

TrmmMatrix(h, w, s) ==
    [h |-> h, w |-> w, e |-> [ij \in Idx(h, w) |-> ((ij[1] + 1) * (ij[2] + s + 1) + s) % 3]]

\* <<X.Height(), X.Width(), L.Height(), L.Width()>>: the conformal shapes
\* of both routes, and shapes with L not square or X.Width() # L.Height()
TrmmShapes ==
    { <<m, n, n, n>> : m \in 0 .. MaxTrmmRows, n \in 1 .. 3 }
    \cup { <<m, RouteFactor * m + 1, RouteFactor * m + 1, RouteFactor * m + 1>> :
             m \in 1 .. MaxTrmmRows }
    \cup { <<m, 2, 2, 3>> : m \in 0 .. MaxTrmmRows }
    \cup { <<m, 2, 3, 3>> : m \in 0 .. MaxTrmmRows }
    \cup { <<m, 3, 2, 2>> : m \in 0 .. MaxTrmmRows }
    \cup { <<1, 2, RouteFactor + 1, RouteFactor + 1>>, <<1, RouteFactor + 1, RouteFactor + 1, RouteFactor>> }

TrmmBegin ==
    /\ kernel = NoKernel
    /\ \E entry \in TrmmEntries, diag \in {"UNIT", "NON_UNIT"}, sh \in TrmmShapes,
          sL \in 0 .. MaxTrmmSeed, sX \in 0 .. MaxTrmmSeed,
          bsize \in TrmmBlocksizes, ratio \in TrmmRatios, g \in 0 .. MaxGarbage :
         /\ (debug \/ (sh[2] <= sh[3] /\ sh[2] <= sh[4])) => g = 0
         /\ kernel' = TrmmStart(entry, diag, TrmmMatrix(sh[3], sh[4], sL),
                                TrmmMatrix(sh[1], sh[2], sX), bsize, ratio, g, debug)
    /\ UNCHANGED <<debug, this, call, nops>>

RLNAIterate ==
    /\ kernel.op = "RLN"
    /\ kernel.route = "A"
    /\ kernel.out = "running"
    /\ kernel.k < kernel.m
    /\ kernel' = RLNAStep(kernel, debug)
    /\ UNCHANGED <<debug, this, call, nops>>

RLNCIterate ==
    /\ kernel.op = "RLN"
    /\ kernel.route = "C"
    /\ kernel.out = "running"
    /\ kernel.k < kernel.n
    /\ kernel' = RLNCStep(kernel)
    /\ UNCHANGED <<debug, this, call, nops>>

\* the loop condition fails: the routine returns
TrmmReturn ==
    /\ kernel.op = "RLN"
    /\ kernel.out = "running"
    /\ kernel.k >= (IF kernel.route = "A" THEN kernel.m ELSE kernel.n)
    /\ kernel' = [kernel EXCEPT !.out = "ok"]
    /\ UNCHANGED <<debug, this, call, nops>>

\* -------------------------------------------- TransposeColSumScatterUpdate
\* the members of the row communicator of B that p belongs to
RowCommOf(B, p) == { q \in DistComm(B, p) : ColRank(B, q) = ColRank(B, p) }

\* copy::RowSumScatter( A, B ), A in [U,VGath], B in [U,V] on the grid of A:
\* B takes A's column alignment unless its own is constrained, is resized to
\* A's size, and each process receives, for the columns it owns, the sum of
\* the copies of A held by the members of its row communicator
RowSumScatter(A, B, s) ==
    LET B1 == AlignColsAndResize(B, A.colAlign, A.height, A.width, FALSE, FALSE, s)
    IN  [B1 EXCEPT !.local = [p \in Procs(B1.grid) |->
            [B1.local[p] EXCEPT !.e = [ab \in DOMAIN B1.local[p].e |->
                SumComm([q \in RowCommOf(B1, p) |->
                           AVal(A.seed, q, GlobalRow(B1, p, ab[1]), GlobalCol(B1, p, ab[2]))],
                        RowCommOf(B1, p))]]]]

\* *this after `if( !ColConstrained() ) AlignColsWith( ASumFilt, false );
\* if( !RowConstrained() ) AlignRowsWith( ASumFilt, false )`
AlignedWithFilt(M, AFilt) ==
    LET M1 == IF ~M.colConstrained
              THEN AlignColsWith(M, DistData(AFilt), FALSE, FALSE).m ELSE M
    IN  IF ~M.rowConstrained
        THEN AlignRowsWith(M1, DistData(AFilt), FALSE, FALSE).m ELSE M1

\* the position in the order of the loops (jLoc outer, iLoc inner) of the
\* first read BLoc.Get(jLoc,iLoc) outside BLoc; -1 when every read is inside
FirstOutside(ALoc, BLoc) ==
    LET bad == { ij[1] + ij[2] * ALoc.h : ij \in
                   { ab \in DOMAIN ALoc.e : <<ab[2], ab[1]>> \notin DOMAIN BLoc.e } }
    IN  IF bad = {} THEN -1 ELSE CHOOSE x \in bad : \A y \in bad : x <= y

\* the loops `ALoc.Update( iLoc, jLoc, alpha*BLoc.Get(jLoc,iLoc) )` (Conj of
\* the entry when conjugate) on one process, up to position `stop` (to the
\* end when stop = -1)
UpdateLoops(ALoc, BLoc, alpha, conjugate, complex, stop) ==
    [ALoc EXCEPT !.e = [ab \in DOMAIN ALoc.e |->
        IF stop = -1 \/ ab[1] + ab[2] * ALoc.h < stop
        THEN ALoc.e[ab] + alpha * (IF conjugate THEN Conj(complex, BLoc.e[<<ab[2], ab[1]>>])
                                   ELSE BLoc.e[<<ab[2], ab[1]>>])
        ELSE ALoc.e[ab]]]

\* `ALoc += alpha ASumFiltLoc'` on every process: Matrix::Get checks its
\* indices in a debug build only
TransposedUpdate(M2, B, alpha, conjugate, complex, dbg, s) ==
    [m |-> [M2 EXCEPT !.local = [p \in Procs(M2.grid) |->
              LET stop == FirstOutside(M2.local[p], B.local[p])
              IN  IF ~Participating(M2, p) THEN M2.local[p]
                  ELSE IF stop # -1 /\ ~dbg
                  THEN [M2.local[p] EXCEPT !.e = [ij \in DOMAIN M2.local[p].e |->
                           FillVal(s, ij[1], ij[2])]]
                  ELSE UpdateLoops(M2.local[p], B.local[p], alpha, conjugate, complex, stop)]],
     out |-> [p \in Procs(M2.grid) |->
               IF ~Participating(M2, p) THEN "skipped"
               ELSE IF FirstOutside(M2.local[p], B.local[p]) = -1 THEN "ok"
               ELSE IF dbg THEN "LogicError" ELSE "undefined"],
     rs |-> [p \in Procs(M2.grid) |-> IF Participating(B, p) THEN 1 ELSE 0]]

\* ASumFilt of TransposeColSumScatterUpdate after copy::RowSumScatter
ASumFiltOf(M, A, s) == RowSumScatter(A, AFiltAligned(M, A), s)

\* GeneralDistMatrix<T,U,V>::TransposeColSumScatterUpdate( alpha, A,
\* conjugate ), A in [V,UGath]; copy::RowSumScatter asserts the same grid in
\* a debug build
TransposeColSumScatterUpdate(M, alpha, A, conjugate, complex, dbg, s) ==
    IF ~SameGrids(A, AFiltAligned(M, A))
    THEN IF dbg THEN Thrown(M) ELSE Undefined(M, s)
    ELSE TransposedUpdate(AlignedWithFilt(M, ASumFiltOf(M, A, s)), ASumFiltOf(M, A, s),
                          alpha, conjugate, complex, dbg, s)

\* GeneralDistMatrix<T,U,V>::TransposePartialColSumScatterUpdate( alpha, A,
\* conjugate ), A in [V,UPart]: ASumFilt.PartialRowSumScatterFrom( A ), whose
\* logic error leaves the call before *this is touched
TransposePartialColSumScatterUpdate(M, alpha, A, conjugate, complex, dbg, s) ==
    LET r == PartialRowSumScatterFrom(AFiltAligned(M, A), A, dbg, s)
    IN  IF r.m.grid # M.grid
        THEN IF dbg THEN Thrown(M) ELSE Undefined(M, s)
        ELSE IF Failed(r) THEN [m |-> M, out |-> r.out, rs |-> r.rs]
        ELSE IF \E p \in DOMAIN r.out : r.out[p] = "undefined" THEN Undefined(M, s)
        ELSE TransposedUpdate(AlignedWithFilt(M, r.m), r.m, alpha, conjugate, complex, dbg, s)

\* the source of TransposeColSumScatterUpdate: A in [V,UGath], the copies
\* differing from process to process
TransposedSumSources(M, grids, dims, seeds) ==
    UNION { { Source(<<M.dist[2], Collect(M.dist[1])>>, g, ca, 0, hw[1], hw[2], sd) :
                ca \in {0, Stride(M.dist[2], g) - 1}, hw \in dims, sd \in seeds } : g \in grids }

\* the source of TransposePartialColSumScatterUpdate: A in [V,UPart]
TransposedPartialSources(M, grids, dims, seeds) ==
    UNION { { Source(<<M.dist[2], Partial(M.dist[1])>>, g, ca, ra, hw[1], hw[2], sd) :
                ca \in {0, Stride(M.dist[2], g) - 1},
                ra \in {0, Stride(Partial(M.dist[1]), g) - 1},
                hw \in dims, sd \in seeds } : g \in grids }

\* the conjugate flag and the element type of a call
TransposeFlags == { <<FALSE, FALSE>>, <<TRUE, FALSE>>, <<TRUE, TRUE>> }

DoTransposeColSumScatterUpdate(sources, depth) ==
    /\ nops < depth
    /\ \E A \in sources, alpha \in Alphas, cc \in TransposeFlags, s \in FillSeeds :
         Step("TransposeColSumScatterUpdate",
              [alpha |-> alpha, A |-> Descr(A), conjugate |-> cc[1], complex |-> cc[2]],
              TransposeColSumScatterUpdate(this, alpha, A, cc[1], cc[2], debug, s))

DoTransposePartialColSumScatterUpdate(sources, depth) ==
    /\ nops < depth
    /\ \E A \in sources, alpha \in Alphas, cc \in TransposeFlags, s \in FillSeeds :
         Step("TransposePartialColSumScatterUpdate",
              [alpha |-> alpha, A |-> Descr(A), conjugate |-> cc[1], complex |-> cc[2]],
              TransposePartialColSumScatterUpdate(this, alpha, A, cc[1], cc[2], debug, s))

\* ------------------------------------ Transpose*FilterFrom / *SumScatterFrom
\* AlignRowsAndResize( rowAlign, height, width, force, constrain )
AlignRowsAndResize(M, ra, h, w, force, constrain, s) ==
    LET M1 == IF ~M.viewing /\ (force \/ ~M.rowConstrained)
              THEN [M EXCEPT !.rowAlign = ra] ELSE M
        M2 == [M1 EXCEPT !.rowConstrained = (M.rowConstrained \/ constrain)]
    IN  Resize(M2, h, w, s)

\* B with the entries each process selects out of its own copy of A
SelectedFrom(A, B) ==
    [B EXCEPT !.local = [p \in Procs(B.grid) |->
        [B.local[p] EXCEPT !.e = [ab \in DOMAIN B.local[p].e |->
            AVal(A.seed, p, GlobalRow(B, p, ab[1]), GlobalCol(B, p, ab[2]))]]]]

\* copy::ColFilter( A, B ), A in [UGath,V], B in [U,V] on the grid of A: B
\* takes A's row alignment unless its own is constrained, is resized to A's
\* size, and each process copies the rows it owns out of its copy of A
ColFilter(A, B, s) ==
    SelectedFrom(A, AlignRowsAndResize(B, A.rowAlign, A.height, A.width, FALSE, FALSE, s))

\* copy::PartialRowFilter( A, B ), A in [U,VPart], B in [U,V], and
\* copy::PartialColFilter( A, B ), A in [UPart,V]: B takes the alignments of
\* A it is not constrained against, is resized to A's size, and each process
\* copies the columns (rows) it owns out of the ones it holds of A
PartialRowFilter(A, B, s) ==
    SelectedFrom(A, AlignAndResize(B, A.colAlign, A.rowAlign, A.height, A.width,
                                   FALSE, FALSE, s))

PartialColFilter(A, B, s) ==
    SelectedFrom(A, AlignAndResize(B, A.colAlign, A.rowAlign, A.height, A.width,
                                   FALSE, FALSE, s))

\* the six routines that fill *this with the transpose of an intermediate
TransposeFromRoutines ==
    { "TransposeColFilterFrom", "TransposeRowFilterFrom",
      "TransposePartialColFilterFrom", "TransposePartialRowFilterFrom",
      "TransposeColSumScatterFrom", "TransposePartialColSumScatterFrom" }

\* one collective on every process that takes part in B
OneCollective(B) ==
    [m |-> B, out |-> Outcome(B, "ok"),
     rs |-> [p \in Procs(B.grid) |-> IF Participating(B, p) THEN 1 ELSE 0]]

\* the [V,U] intermediate B (AFilt, ASumFilt), aligned with the constrained
\* axes of *this, after the copy routine of the routine, with the outcome of
\* that routine
IntermediateOf(routine, B, A, dbg, s) ==
    CASE routine = "TransposeColFilterFrom" -> Returned(RowFilter(A, B, s))
      [] routine = "TransposeRowFilterFrom" -> Returned(ColFilter(A, B, s))
      [] routine = "TransposePartialColFilterFrom" -> Returned(PartialRowFilter(A, B, s))
      [] routine = "TransposePartialRowFilterFrom" -> Returned(PartialColFilter(A, B, s))
      [] routine = "TransposeColSumScatterFrom" -> OneCollective(RowSumScatter(A, B, s))
      [] routine = "TransposePartialColSumScatterFrom" ->
            PartialRowSumScatterFrom(B, A, dbg, s)

\* the outcome res of a call with the alignments of its intermediate F
WithFilt(res, F) ==
    [m |-> res.m, out |-> res.out, rs |-> res.rs,
     filt |-> [colAlign |-> F.colAlign, rowAlign |-> F.rowAlign]]

\* `Resize( A.Width(), A.Height() ); Transpose( AFilt.LockedMatrix(),
\* this->Matrix(), conjugate )` on *this as aligned with the intermediate
ResizedAndTransposed(M2, r, A, conjugate, complex, s) ==
    IF M2.viewing THEN Thrown(M2)
    ELSE [m |-> [Resize(M2, A.width, A.height, s) EXCEPT !.local =
                    [p \in Procs(M2.grid) |->
                        TransposeLocal(r.m.local[p], conjugate, complex)]],
          out |-> Outcome(M2, "ok"), rs |-> r.rs]

\* the end of the six routines: *this takes the alignments of the
\* intermediate it is not constrained against, is resized and filled
TransposedFrom(M, r, A, conjugate, complex, s) ==
    IF Failed(r) THEN [m |-> M, out |-> r.out, rs |-> r.rs]
    ELSE IF \E p \in DOMAIN r.out : r.out[p] = "undefined" THEN Undefined(M, s)
    ELSE ResizedAndTransposed(AlignedWithFilt(M, r.m), r, A, conjugate, complex, s)

\* the routine once the intermediate B is declared and aligned; the copy
\* routines assert the same grid in a debug build
TransposeVia(routine, M, B, A, conjugate, complex, dbg, s) ==
    IF ~SameGrids(A, B)
    THEN WithFilt(IF dbg THEN Thrown(M) ELSE Undefined(M, s), B)
    ELSE WithFilt(TransposedFrom(M, IntermediateOf(routine, B, A, dbg, s),
                                 A, conjugate, complex, s),
                  IntermediateOf(routine, B, A, dbg, s).m)

\* GeneralDistMatrix<T,U,V>::Transpose{Col,Row,PartialCol,PartialRow}
\* FilterFrom( A, conjugate ) and Transpose{Col,PartialCol}SumScatterFrom(
\* A, conjugate )
TransposeFrom(routine, M, A, conjugate, complex, dbg, s) ==
    TransposeVia(routine, M, AFiltAligned(M, A), A, conjugate, complex, dbg, s)

\* the source of a routine for a [U,V] destination: [V,UGath] for the
\* column routines, [VGath,U] for TransposeRowFilterFrom, [V,UPart] and
\* [VPart,U] for the partial ones
TransposeFromSources(routine, M, g, dims, seeds) ==
    LET U == M.dist[1]
        V == M.dist[2]
        UV == CASE routine \in {"TransposeColFilterFrom", "TransposeColSumScatterFrom"} ->
                      <<V, Collect(U)>>
                [] routine = "TransposeRowFilterFrom" -> <<Collect(V), U>>
                [] routine \in {"TransposePartialColFilterFrom",
                                "TransposePartialColSumScatterFrom"} -> <<V, Partial(U)>>
                [] routine = "TransposePartialRowFilterFrom" -> <<Partial(V), U>>
    IN  { Source(UV, g, ca, ra, hw[1], hw[2], sd) :
            ca \in {0, Stride(UV[1], g) - 1}, ra \in {0, Stride(UV[2], g) - 1},
            hw \in dims, sd \in seeds }

\* what a call leaves behind, with the alignments of its intermediate
StepFilt(op, args, res) ==
    /\ this' = res.m
    /\ call' = [op |-> op, args |-> args, pre |-> this, out |-> res.out, rs |-> res.rs,
                filt |-> res.filt]
    /\ nops' = nops + 1
    /\ UNCHANGED <<debug, kernel>>

DoTransposeFrom(routine, dims, seeds, depth) ==
    /\ nops < depth
    /\ \E A \in TransposeFromSources(routine, this, this.grid, dims, seeds),
          cc \in TransposeFlags, s \in FillSeeds :
         StepFilt(routine,
                  [A |-> Descr(A), conjugate |-> cc[1], complex |-> cc[2]],
                  TransposeFrom(routine, this, A, cc[1], cc[2], debug, s))

\* ---------------------------------------------------------- specifications
NoCall(M) ==
    [op |-> "Construct", args |-> [height |-> M.height, width |-> M.width],
     pre |-> M, out |-> Outcome(M, "ok"), rs |-> NoCollective(M)]

\* the redistribution engine after any constructor, one call deep: every
\* entry point on every constructed matrix
CtorDims == {0, MaxHeight - 1, MaxHeight} \X {0, MaxWidth - 1, MaxWidth}

InitCtor ==
    /\ debug \in BOOLEAN
    /\ \E a \in {c \in CtorArgs : <<c.h, c.w>> \in CtorDims} :
         this = Constructed(a.dist, a.grid, a.h, a.w, a.ca, a.ra, a.r, a.fixed, a.s)
    /\ call = NoCall(this)
    /\ nops = 0
    /\ kernel = NoKernel

Own(M) == {M.grid}

Other(M) == {OtherGrid(M.grid)}

SameAndOther(M) == {M.grid, OtherGrid(M.grid)}

SameOrWider(M) == {<<M.height, M.width>>, <<M.height, (M.width + 1) % (MaxWidth + 1)>>}

NextScatter ==
    \/ DoSumScatterFrom(GatheredSources(this, SameAndOther(this), SameOrWider(this), {0, 1}), 1)
    \/ DoSumScatterUpdate(GatheredSources(this, SameAndOther(this), SameOrWider(this), {0, 1}), 1)

SpecScatter == InitCtor /\ [][NextScatter]_vars

NextPartial ==
    \/ DoPartialRowSumScatterFrom(PartialRowSources(this, Own(this), SameOrWider(this), {1}), 1)
    \/ DoPartialRowSumScatterUpdate(PartialRowSources(this, Own(this), SameOrWider(this), {1}), 1)
    \/ DoPartialColSumScatterFrom(PartialColSources(this, Own(this), SameOrWider(this), {1}), 1)
    \/ DoPartialColSumScatterUpdate(PartialColSources(this, Own(this), SameOrWider(this), {1}), 1)

SpecPartial == InitCtor /\ [][NextPartial]_vars

\* AlignColsWith / AlignRowsWith on a constructed matrix, with the
\* descriptor of any instantiated distribution on its grid or another one
AlignDims == {<<0, 0>>, <<MaxHeight, MaxWidth>>}

InitAlign ==
    /\ debug \in BOOLEAN
    /\ \E a \in {c \in CtorArgs : <<c.h, c.w>> \in AlignDims /\ (c.h > 0 => c.s = 1)} :
         this = Constructed(a.dist, a.grid, a.h, a.w, a.ca, a.ra, a.r, a.fixed, a.s)
    /\ call = NoCall(this)
    /\ nops = 0
    /\ kernel = NoKernel

NextAlign ==
    \/ DoAlignColsWith(Descriptors(this, DistPairs, SameAndOther(this)), 1)
    \/ DoAlignRowsWith(Descriptors(this, DistPairs, SameAndOther(this)), 1)

SpecAlign == InitAlign /\ [][NextAlign]_vars

\* every entry point called with a descriptor or a source matrix on another
\* grid than that of *this
Same(M) == {<<M.height, M.width>>}

NextCrossGrid ==
    \/ DoAlignColsWith(Descriptors(this, {this.dist, <<"STAR", "STAR">>}, Other(this)), 1)
    \/ DoAlignRowsWith(Descriptors(this, {this.dist, <<"STAR", "STAR">>}, Other(this)), 1)
    \/ DoSumScatterFrom(GatheredSources(this, Other(this), Same(this), {1}), 1)
    \/ DoSumScatterUpdate(GatheredSources(this, Other(this), Same(this), {1}), 1)
    \/ DoPartialRowSumScatterFrom(PartialRowSources(this, Other(this), Same(this), {1}), 1)
    \/ DoPartialRowSumScatterUpdate(PartialRowSources(this, Other(this), Same(this), {1}), 1)
    \/ DoPartialColSumScatterFrom(PartialColSources(this, Other(this), Same(this), {1}), 1)
    \/ DoPartialColSumScatterUpdate(PartialColSources(this, Other(this), Same(this), {1}), 1)
    \/ DoTransposeColFilterFrom(FilterSources(this, Other(this), Same(this)), 1)

SpecCrossGrid == InitAlign /\ [][NextCrossGrid]_vars

\* any sequence of up to MaxOps calls on a matrix made by a constructor,
\* every argument on the grid of the matrix
InitSpec ==
    /\ debug \in BOOLEAN
    /\ \E a \in {c \in CtorArgs : c.h = MaxHeight /\ c.w = MaxWidth /\ c.s = 1 /\ c.r = 0} :
         this = Constructed(a.dist, a.grid, a.h, a.w, a.ca, a.ra, a.r, a.fixed, a.s)
    /\ call = NoCall(this)
    /\ nops = 0
    /\ kernel = NoKernel

Tall == {<<MaxHeight, MaxWidth - 1>>}

Wide == {<<MaxHeight - 1, MaxWidth>>}

AttachArgs(M) ==
    { [grid |-> M.grid, h |-> MaxHeight, w |-> MaxWidth - 1,
       ca |-> a, ra |-> 0, r |-> M.root, s |-> 1] : a \in {0, ColStride(M) - 1} }

Next ==
    \/ DoResize(Wide, MaxOps)
    \/ DoAttach(AttachArgs(this), MaxOps)
    \/ DoAlignColsWith(Descriptors(this, {this.dist}, Own(this)), MaxOps)
    \/ DoAlignRowsWith(Descriptors(this, {this.dist}, Own(this)), MaxOps)
    \/ DoSumScatterFrom(GatheredSources(this, Own(this), Wide, {1}), MaxOps)
    \/ DoPartialRowSumScatterFrom(PartialRowSources(this, Own(this), Wide, {1}), MaxOps)
    \/ DoPartialColSumScatterFrom(PartialColSources(this, Own(this), Wide, {1}), MaxOps)
    \/ DoTransposeColFilterFrom(FilterSources(this, Own(this), Tall), MaxOps)

Spec == InitSpec /\ [][Next]_vars

\* the diagonals of a constructed matrix: GetDiagonal, then UpdateDiagonal
\* and SetDiagonal with the diagonal it returned
DiagGrids == [h : 1 .. MaxDiagGridHeight, w : 1 .. MaxDiagGridWidth]

DiagThisDists ==
    { <<"MC", "MR">>, <<"MR", "MC">>, <<"MC", "STAR">>, <<"STAR", "MR">>,
      <<"VC", "STAR">>, <<"STAR", "VR">>, <<"MD", "STAR">>, <<"STAR", "STAR">>,
      <<"CIRC", "CIRC">> }

DiagDims ==
    { <<0, 0>>, <<1, 1>>, <<MaxDiagDim - 2, MaxDiagDim>>, <<MaxDiagDim, MaxDiagDim>> }

MaxDiagOps == 3

InitDiagonal ==
    /\ debug \in BOOLEAN
    /\ \E UV \in DiagThisDists, g \in DiagGrids, hw \in DiagDims :
         \E ca \in 0 .. (Stride(UV[1], g) - 1), ra \in 0 .. (Stride(UV[2], g) - 1),
            r \in {0, CrossSizeOf(UV, g) - 1} :
           this = Constructed(UV, g, hw[1], hw[2], ca, ra, r, TRUE, 1)
    /\ call = NoCall(this)
    /\ nops = 0
    /\ kernel = NoKernel

NextDiagonal ==
    \/ DoGetDiagonal(DiagTargets(this, SameAndOther(this)), MaxDiagOps)
    \/ DoUpdateDiagonal(MaxDiagOps)
    \/ DoSetDiagonal(MaxDiagOps)

SpecDiagonal == InitDiagonal /\ [][NextDiagonal]_vars

\* a partitioned matrix gathered into a layout that replicates its column
\* axis, after its constructor or after it was filtered out of a replicated
\* matrix
GatherDists ==
    { <<"MC", "MR">>, <<"MC", "STAR">>, <<"VC", "STAR">>, <<"STAR", "VR">> }

GatherDims ==
    { <<0, 0>>, <<1, 1>>, <<MaxGatherDim - 2, MaxGatherDim - 1>>,
      <<MaxGatherDim, MaxGatherDim>> }

InitGather ==
    /\ debug \in BOOLEAN
    /\ \E a \in {c \in CtorArgs : /\ c.dist \in GatherDists /\ c.r = 0
                                  /\ c.h = c.w /\ c.h \in {0, MaxHeight}
                                  /\ (c.h > 0 => c.s = 1)} :
         \E hw \in IF a.h = 0 THEN {<<0, 0>>} ELSE GatherDims \ {<<0, 0>>} :
           this = Constructed(a.dist, a.grid, hw[1], hw[2], a.ca, a.ra, a.r, a.fixed, a.s)
    /\ call = NoCall(this)
    /\ nops = 0
    /\ kernel = NoKernel

NextGather ==
    \/ DoTransposeColFilterFrom(FilterSources(this, Own(this), GatherDims), MaxOps)
    \/ DoTransposeColAllGather(GatherTargets(this, SameAndOther(this)), MaxOps)

SpecGather == InitGather /\ [][NextGather]_vars

\* one reduce-scatter update on a constructed matrix, process by process
CollectiveGrids == { g \in Grids : GridSize(g) <= MaxCollectiveProcs }

CollectiveProcs == 0 .. (MaxCollectiveProcs - 1)

InitCollective ==
    /\ debug \in BOOLEAN
    /\ \E a \in {c \in CtorArgs : /\ c.grid \in CollectiveGrids
                                  /\ c.h = 1 /\ c.w = 2 /\ c.s = 1
                                  /\ c.fixed /\ c.ca = 0} :
         this = Constructed(a.dist, a.grid, a.h, a.w, a.ca, a.ra, a.r, a.fixed, a.s)
    /\ call = NoCall(this)
    /\ nops = 0
    /\ kernel = NoKernel

NextCollective ==
    \/ BeginSumScatterUpdate(GatheredSources(this, Own(this), SameOrWider(this), {1}))
    \/ BeginPartialRowSumScatterUpdate(PartialRowSources(this, Own(this), SameOrWider(this), {1}))
    \/ BeginPartialColSumScatterUpdate(PartialColSources(this, Own(this), Same(this), {1}))
    \/ \E p \in CollectiveProcs : ReachCollective(p)
    \/ \E p \in CollectiveProcs : LeaveCollective(p)

\* every process keeps running: one control thread per process
SpecCollective ==
    /\ InitCollective /\ [][NextCollective]_vars
    /\ \A p \in CollectiveProcs :
         WF_vars(ReachCollective(p)) /\ WF_vars(LeaveCollective(p))

\* the Tikhonov solvers on sparse and distributed sparse matrices
InitTikhonov ==
    /\ debug = TRUE
    /\ this = Construct(<<"MC", "MR">>, [h |-> 1, w |-> 1])
    /\ call = NoCall(this)
    /\ nops = 0
    /\ kernel = NoKernel

NextTikhonov == DoTikhonovSparse \/ DoTikhonovDistSparse \/ ForgetKernel

SpecTikhonov == InitTikhonov /\ [][NextTikhonov]_vars

\* the four EN variants
InitEN ==
    /\ debug = TRUE
    /\ this = Construct(<<"MC", "MR">>, [h |-> 1, w |-> 1])
    /\ call = NoCall(this)
    /\ nops = 0
    /\ kernel = NoKernel

NextEN == DoENDense \/ DoENDist \/ DoENSparse \/ DoENDistSparse \/ ForgetKernel

SpecEN == InitEN /\ [][NextEN]_vars

\* lll::BlockedAlg
InitLLL ==
    /\ debug \in BOOLEAN
    /\ this = Construct(<<"MC", "MR">>, [h |-> 1, w |-> 1])
    /\ call = NoCall(this)
    /\ nops = 0
    /\ kernel = NoKernel

NextLLL == BlockedAlgBegin \/ BlockedAlgIterate \/ BlockedAlgReturn

SpecLLL == InitLLL /\ [][NextLLL]_vars

\* trmm::RLN
InitTrmm ==
    /\ debug \in BOOLEAN
    /\ this = Construct(<<"MC", "MR">>, [h |-> 1, w |-> 1])
    /\ call = NoCall(this)
    /\ nops = 0
    /\ kernel = NoKernel

NextTrmm == TrmmBegin \/ RLNAIterate \/ RLNCIterate \/ TrmmReturn \/ ForgetKernel

SpecTrmm == InitTrmm /\ [][NextTrmm]_vars

\* the transposed reduce-scatter updates on a constructed matrix, A of the
\* transposed size
Transposed(M) == {<<M.width, M.height>>}

NextTransposeUpdate ==
    \/ DoTransposeColSumScatterUpdate(TransposedSumSources(this, Own(this), Transposed(this), {1}), 1)
    \/ DoTransposePartialColSumScatterUpdate(
          TransposedPartialSources(this, Own(this), Transposed(this), {1}), 1)

SpecTransposeUpdate == InitCtor /\ [][NextTransposeUpdate]_vars

\* the six routines on a constructed matrix, the source of the transposed
\* size of the destination or, for two of them, one column wider
TransposedOrWider(M) ==
    {<<M.width, M.height>>, <<M.width, (M.height + 1) % (MaxWidth + 1)>>}

NextTransposeFrom ==
    \/ DoTransposeFrom("TransposeColFilterFrom", TransposedOrWider(this), {0}, 1)
    \/ DoTransposeFrom("TransposeRowFilterFrom", Transposed(this), {0}, 1)
    \/ DoTransposeFrom("TransposePartialColFilterFrom", Transposed(this), {0}, 1)
    \/ DoTransposeFrom("TransposePartialRowFilterFrom", Transposed(this), {0}, 1)
    \/ DoTransposeFrom("TransposeColSumScatterFrom", TransposedOrWider(this), {1}, 1)
    \/ DoTransposeFrom("TransposePartialColSumScatterFrom", Transposed(this), {1}, 1)

SpecTransposeFrom == InitCtor /\ [][NextTransposeFrom]_vars

\* ------------------------------------------------------------------ claims
\* the source matrix A of the last call
CallA ==
    Source(call.args.A.dist, call.args.A.grid, call.args.A.colAlign,
           call.args.A.rowAlign, call.args.A.height, call.args.A.width,
           call.args.A.seed)

\* the pack loop of SumScatterUpdate ran on some process
PackLoopRan ==
    /\ call.op \in {"SumScatterUpdate", "SumScatterFrom"}
    /\ \E p \in DOMAIN call.out : call.out[p] = "ok"

\* the indices shift + a*stride, a < len
Strided(shift, len, stride) == { shift + a * stride : a \in 0 .. (len - 1) }

\* C1: for every stride s >= 1 and extent n >= 0 the lengths
\* Length(n, shift, s) over shift = 0..s-1 sum to n, and every index in
\* [0,n) is counted by exactly one shift: checked on the thisLocalWidth and
\* thisLocalHeight the pack loop of SumScatterUpdate computes for the row
\* ranks l and the column ranks k.
C1_LengthsSumToExtent ==
    PackLoopRan =>
        /\ SumOver([l \in 0 .. (RowStride(this) - 1) |-> ThisLocalWidth(this, l)],
                   0, RowStride(this)) = this.width
        /\ SumOver([k \in 0 .. (ColStride(this) - 1) |-> ThisLocalHeight(this, k)],
                   0, ColStride(this)) = this.height
        /\ \A j \in 0 .. (this.width - 1) :
             Cardinality({ l \in 0 .. (RowStride(this) - 1) :
                 j \in Strided(ThisRowShift(this, l), ThisLocalWidth(this, l),
                               RowStride(this)) }) = 1
        /\ \A i \in 0 .. (this.height - 1) :
             Cardinality({ k \in 0 .. (ColStride(this) - 1) :
                 i \in Strided(ThisColShift(this, k), ThisLocalHeight(this, k),
                               ColStride(this)) }) = 1

\* the pack loop ran over unequal lengths in both directions
C1_Witness ==
    /\ PackLoopRan
    /\ RowStride(this) = 2 /\ this.width = 3
    /\ ColStride(this) = 2 /\ this.height = 3
    /\ this.rowAlign = 1

\* the segments (k,l) whose packed entries include global entry (i,j)
Packers(M, i, j) ==
    { kl \in (0 .. (ColStride(M) - 1)) \X (0 .. (RowStride(M) - 1)) :
        <<i, j>> \in PackedPositions(M, kl[1], kl[2]) }

\* C2: every global entry (i,j) has exactly one owner, the grid coordinate
\* ((i - colAlign) mod r, (j - rowAlign) mod c), and the segments (k,l) of
\* the SumScatterUpdate pack loop cover every global entry exactly once,
\* each entry in the segment of its owner.
C2_PackLoopCoversEveryEntryOnce ==
    PackLoopRan =>
        \A i \in 0 .. (this.height - 1), j \in 0 .. (this.width - 1) :
            Packers(this, i, j) =
                { << (i - this.colAlign) % ColStride(this),
                     (j - this.rowAlign) % RowStride(this) >> }

\* with zero alignments, where the owner of (i,j) is (i mod r, j mod c)
\* whatever the sign convention, the pack loop left an entry in no segment
C2_EntryInNoSegment ==
    /\ PackLoopRan
    /\ this.colAlign = 0 /\ this.rowAlign = 0
    /\ \E i \in 0 .. (this.height - 1), j \in 0 .. (this.width - 1) :
         Packers(this, i, j) = {}

\* SumScatterUpdate ran on the participating processes
UpdateRan ==
    /\ call.op = "SumScatterUpdate"
    /\ \E p \in DOMAIN call.out : call.out[p] = "ok"

\* alpha times the sum over the distribution communicator of p of the
\* members' copies of A's entry at the global position of local entry ab
ScaledSum(p, ab) ==
    call.args.alpha *
        SumComm([q \in DistComm(this, p) |->
                    CallA.local[q].e[<<GlobalRow(this, p, ab[1]),
                                       GlobalCol(this, p, ab[2])>>]],
                DistComm(this, p))

\* C4: after SumScatterUpdate(alpha, A), A in [UGath,VGath] of the size of
\* the destination, every entry of the destination on its owner is its old
\* value plus alpha times the sum over the distribution communicator of the
\* members' copies of that entry of A.
C4_SumScatterUpdateAddsTheSum ==
    UpdateRan =>
        \A p \in Procs(this.grid) :
            Participating(this, p) =>
                \A ab \in DOMAIN this.local[p].e :
                    this.local[p].e[ab] = call.pre.local[p].e[ab] + ScaledSum(p, ab)

\* an owner holds something else than its old entry plus the scaled sum
C4_WrongEntryDelivered ==
    /\ UpdateRan
    /\ \E p \in Procs(this.grid) :
         /\ Participating(this, p)
         /\ \E ab \in DOMAIN this.local[p].e :
              this.local[p].e[ab] # call.pre.local[p].e[ab] + ScaledSum(p, ab)

\* the last call was an unaligned partial reduce-scatter update
UpdateHitUnaligned ==
    \/ /\ call.op = "PartialRowSumScatterUpdate"
       /\ call.pre.rowAlign % RowStride(CallA) # CallA.rowAlign
    \/ /\ call.op = "PartialColSumScatterUpdate"
       /\ call.pre.colAlign % ColStride(CallA) # CallA.colAlign

\* no process issued a collective, and *this is as the call found it
NothingDone ==
    /\ \A p \in DOMAIN call.rs : call.rs[p] = 0
    /\ this.height = call.pre.height /\ this.width = call.pre.width
    /\ this.colAlign = call.pre.colAlign /\ this.rowAlign = call.pre.rowAlign
    /\ this.local = call.pre.local

\* C5 (as amended): an unaligned PartialRowSumScatterUpdate or
\* PartialColSumScatterUpdate throws a logic error on every participating
\* process (cross rank = root); no reduce-scatter is issued and no element
\* of the destination changes.
C5_UnalignedUpdateRejected ==
    UpdateHitUnaligned =>
        /\ \A p \in Procs(call.pre.grid) :
             Participating(call.pre, p) => call.out[p] = "LogicError"
        /\ NothingDone

\* C5 (as stated): an unaligned partial reduce-scatter update throws a logic
\* error on each process that calls it, issues no reduce-scatter and
\* changes no element.
C5_RejectedOnEveryProcess ==
    UpdateHitUnaligned =>
        /\ \A p \in Procs(call.pre.grid) : call.out[p] = "LogicError"
        /\ NothingDone

\* an unaligned update threw on the root's diagonal and returned silently
\* on the processes off it
C5_Witness ==
    /\ UpdateHitUnaligned
    /\ \E p \in DOMAIN call.out : call.out[p] = "LogicError"
    /\ \E p \in DOMAIN call.out : call.out[p] = "skipped"

\* PartialRowSumScatterFrom / PartialColSumScatterFrom on a destination
\* whose alignment is constrained to a value not congruent to A's
FromHitUnaligned ==
    \/ /\ call.op = "PartialRowSumScatterFrom"
       /\ call.pre.rowConstrained
       /\ call.pre.rowAlign % RowStride(CallA) # CallA.rowAlign
    \/ /\ call.op = "PartialColSumScatterFrom"
       /\ call.pre.colConstrained
       /\ call.pre.colAlign % ColStride(CallA) # CallA.colAlign

\* C6: when PartialRowSumScatterFrom or PartialColSumScatterFrom hits the
\* unaligned case, the destination's size, alignments, local dimensions and
\* entries are as before the call and no collective was issued.
C6_UnalignedFromMutatesNothing ==
    FromHitUnaligned => NothingDone

\* the call threw the unaligned error after resizing and zeroing *this
C6_ThrewAfterResizeAndZeros ==
    /\ FromHitUnaligned
    /\ \E p \in DOMAIN call.out : call.out[p] = "LogicError"
    /\ this.width # call.pre.width
    /\ \E p \in DOMAIN this.local : this.local[p] # call.pre.local[p]

\* the last call was AlignColsWith or AlignRowsWith
AlignCalled == call.op \in {"AlignColsWith", "AlignRowsWith"}

\* the kind of the axis the call aligns: U for the columns, V for the rows
AxisKind == IF call.op = "AlignColsWith" THEN call.pre.dist[1] ELSE call.pre.dist[2]

\* the alignment of that axis
AxisAlign(M) == IF call.op = "AlignColsWith" THEN M.colAlign ELSE M.rowAlign

\* the stride of that axis
AxisStride(M) == IF call.op = "AlignColsWith" THEN ColStride(M) ELSE RowStride(M)

\* the call threw a logic error
CallFailed == \E p \in DOMAIN call.out : call.out[p] = "LogicError"

\* neither kind of the descriptor is the kind K of the axis, its partial
\* relative or its scattered relative
NoRelatedAxis(K, data) ==
    /\ data.colDist \notin {K, Partial(K), Scatter(K)}
    /\ data.rowDist \notin {K, Partial(K), Scatter(K)}

\* no axis of the descriptor is compatible with an axis of kind K
NoCompatibleAxis(K, data) ==
    /\ NoRelatedAxis(K, data)
    /\ Collect(K) \notin {K, data.colDist, data.rowDist}

C8_FailedAlignMutatesNothing ==
    (AlignCalled /\ CallFailed) =>
        /\ this.grid = call.pre.grid
        /\ this.root = call.pre.root
        /\ this.colAlign = call.pre.colAlign
        /\ this.rowAlign = call.pre.rowAlign
        /\ this.local = call.pre.local

\* a failed call left the matrix on the descriptor's grid, emptied
C8_FailedAlignChangedGrid ==
    /\ AlignCalled /\ CallFailed
    /\ this.grid # call.pre.grid
    /\ this.grid = call.args.data.grid
    /\ call.pre.height > 0 /\ this.height = 0

\* the alignment the claim has the call adopt: that of the first compatible
\* axis, a scattered relative's reduced modulo the stride of the matrix
AdoptedAlign(K, data, stride) ==
    IF data.colDist \in {K, Partial(K)} THEN data.colAlign
    ELSE IF data.rowDist \in {K, Partial(K)} THEN data.rowAlign
    ELSE IF data.colDist = Scatter(K) THEN data.colAlign % stride
    ELSE data.rowAlign % stride

\* C9: AlignColsWith adopts data.colAlign if data.colDist is U or its
\* partial relative, otherwise data.rowAlign if data.rowDist is U or its
\* partial relative, otherwise the scattered relative's alignment modulo
\* ColStride, and the resulting colAlign lies in [0, ColStride); the same
\* for AlignRowsWith, rowAlign and RowStride.
C9_AdoptsCompatibleAlignment ==
    (AlignCalled /\ ~NoRelatedAxis(AxisKind, call.args.data)) =>
        /\ ~CallFailed
        /\ AxisAlign(this) = AdoptedAlign(AxisKind, call.args.data, AxisStride(this))
        /\ AxisAlign(this) \in 0 .. (AxisStride(this) - 1)

\* a scattered relative's alignment beyond the stride of the matrix was
\* adopted, reduced
C9_Witness ==
    /\ AlignCalled
    /\ call.args.data.colDist = Scatter(AxisKind) /\ Scatter(AxisKind) # AxisKind
    /\ call.args.data.colAlign >= AxisStride(this)
    /\ AxisAlign(this) = call.args.data.colAlign % AxisStride(this)

\* C3: after any sequence of Resize, AlignColsWith / AlignRowsWith, Attach
\* and redistribution entry points, on every process localHeight =
\* Length(height, colShift, colStride) and localWidth = Length(width,
\* rowShift, rowStride), with colShift = (colRank - colAlign + colStride) mod
\* colStride and rowShift alike.
C3_LocalDimsFollowLength ==
    \A p \in Procs(this.grid) :
        /\ this.local[p].h =
             Length_(this.height,
                     (ColRank(this, p) - this.colAlign + ColStride(this)) % ColStride(this),
                     ColStride(this))
        /\ this.local[p].w =
             Length_(this.width,
                     (RowRank(this, p) - this.rowAlign + RowStride(this)) % RowStride(this),
                     RowStride(this))

\* TransposeColFilterFrom returned with a local matrix of another width
\* than Length gives for the row alignment the destination is constrained to
C3_TransposedIntoWrongWidth ==
    /\ call.op = "TransposeColFilterFrom"
    /\ \A p \in DOMAIN call.out : call.out[p] = "ok"
    /\ call.pre.rowConstrained
    /\ this.rowAlign = call.pre.rowAlign
    /\ \E p \in Procs(this.grid) :
         this.local[p].w # Length_(this.width, RowShift(this, p), RowStride(this))

\* the grid of the descriptor or source matrix handed to the last call
ArgGrid ==
    IF AlignCalled THEN call.args.data.grid ELSE call.args.A.grid

\* the last call was handed an argument on another grid than that of *this
CrossGridCall ==
    /\ call.op \notin {"Construct", "Resize", "Attach"}
    /\ ArgGrid # call.pre.grid

\* the calls that take a source matrix and assert its grid in a debug build
AssertsSameGrids ==
    \/ call.op \in {"SumScatterFrom", "SumScatterUpdate",
                    "PartialRowSumScatterFrom", "PartialRowSumScatterUpdate",
                    "PartialColSumScatterFrom", "PartialColSumScatterUpdate"}
    \/ /\ call.op = "TransposeColFilterFrom"
       /\ (call.pre.colConstrained \/ call.pre.rowConstrained)

CallOffset == call.args.offset

\* (i,j) is an entry of diagonal `offset` of an h x w matrix
OnDiagonal(i, j, h, w, offset) == i < h /\ j < w /\ j - i = offset

\* the local positions of process p that hold entries of diagonal `offset`
\* of M
LocalDiagonal(M, p, offset) ==
    IF ~Participating(M, p) THEN {}
    ELSE { ab \in DOMAIN M.local[p].e :
             OnDiagonal(GlobalRow(M, p, ab[1]), GlobalCol(M, p, ab[2]),
                        M.height, M.width, offset) }

\* the local positions the loop of the last diagonal call visited on p
Visited(p) == { call.wr[p][k] : k \in DOMAIN call.wr[p] }

\* SetDiagonal was called with the diagonal GetDiagonal took from the matrix
\* at an offset inside (-min(h,w), min(h,w))
RoundTripMade ==
    /\ call.op = "SetDiagonal"
    /\ CallOffset > -Min(this.height, this.width)
    /\ CallOffset < Min(this.height, this.width)

\* C11: SetDiagonal(GetDiagonal(M, offset), offset) on a copy of M (or on a
\* copy whose diagonal was updated in between) leaves a matrix whose diagonal
\* `offset` equals M's entry for entry on every process; the loop visits each
\* diagonal entry a process holds exactly once, and nothing else.
C11_DiagonalRoundTrip ==
    RoundTripMade =>
        /\ CallRan
        /\ \A p \in Procs(this.grid) :
             /\ \A ab \in LocalDiagonal(this, p, CallOffset) :
                  this.local[p].e[ab] = call.of.local[p].e[ab]
             /\ Visited(p) = LocalDiagonal(this, p, CallOffset)
             /\ Cardinality(Visited(p)) = Cardinality(DOMAIN call.wr[p])

\* a round trip on a copy of an [MC,MR] matrix on a grid whose dimensions
\* are not coprime, off the main diagonal, some process holding several
\* entries of the diagonal
C11_Witness ==
    /\ RoundTripMade
    /\ call.pre.local = call.of.local
    /\ this.dist = <<"MC", "MR">>
    /\ GCD(this.grid.h, this.grid.w) > 1
    /\ CallOffset # 0
    /\ \E p \in Procs(this.grid) : Cardinality(Visited(p)) >= 2
    /\ this.colAlign # this.rowAlign

\* GetDiagonal was called, with a matrix d on the grid of *this, on a
\* matrix distributed over both dimensions of the grid
TwoDimensional(M) == M.dist \in {<<"MC", "MR">>, <<"MR", "MC">>}

DiagonalTaken ==
    /\ call.op = "GetDiagonal"
    /\ call.args.d.grid = call.pre.grid
    /\ TwoDimensional(call.pre)

\* the processes that hold an entry of the diagonal d the call filled
DiagHolders ==
    { p \in Procs(call.pre.grid) :
        Participating(call.d, p) /\ call.d.local[p].h > 0 }

\* the length of the diagonal the call took
CallDiagLength == DiagonalLength(call.pre.height, call.pre.width, CallOffset)

\* C12: the diagonal of a sufficiently large matrix (one whose diagonal has
\* at least lcm(r,c) entries) on an r x c grid has an entry on every one of
\* the r*c processes if and only if r and c are coprime.
C12_WholeGridIffCoprime ==
    (DiagonalTaken /\ CallDiagLength >= LCM(call.pre.grid.h, call.pre.grid.w)) =>
        ( DiagHolders = Procs(call.pre.grid)
            <=> GCD(call.pre.grid.h, call.pre.grid.w) = 1 )

\* a diagonal spread over all six processes of a 2 x 3 or 3 x 2 grid
C12_Witness ==
    /\ DiagonalTaken
    /\ CallDiagLength >= LCM(call.pre.grid.h, call.pre.grid.w)
    /\ call.pre.grid.h > 1 /\ call.pre.grid.w > 1
    /\ GCD(call.pre.grid.h, call.pre.grid.w) = 1
    /\ DiagHolders = Procs(call.pre.grid)
    /\ CallOffset # 0

\* the first entry of the diagonal the call took is entry (i,j) of *this
FirstOfDiagonal(M, p, ab) ==
    /\ GlobalRow(M, p, ab[1]) = Max(-CallOffset, 0)
    /\ GlobalCol(M, p, ab[2]) = Max(CallOffset, 0)

\* the alignment and the root of d are those of the process that owns the
\* first entry of the diagonal, whatever alignment and root the caller's
\* matrix had: entry 0 of d is on the process holding that first entry
DiagonalAlignedWithOwner ==
    CallDiagLength > 0 =>
        \A p \in Procs(call.pre.grid) :
            (Participating(call.d, p) /\ ColShift(call.d, p) = 0)
                <=> (\E ab \in LocalDiagonal(call.pre, p, CallOffset) :
                        FirstOfDiagonal(call.pre, p, ab))

\* C13 (as amended): the entries of a diagonal of a 2D-distributed matrix
\* are owned by the processes of one of the gcd(colStride,rowStride) diagonal
\* paths of the grid, min(length, lcm(colStride,rowStride)) distinct owners,
\* and the alignment and root of the result of GetDiagonal are determined by
\* (colAlign, rowAlign, offset) alone.
C13_OwnersOnOnePath ==
    DiagonalTaken =>
        /\ Cardinality(DiagHolders) =
             Min(CallDiagLength, LCM(ColStride(call.pre), RowStride(call.pre)))
        /\ call.d.root < GCD(ColStride(call.pre), RowStride(call.pre))
        /\ \A p \in DiagHolders : DiagPath(call.pre.grid, p) = call.d.root
        /\ DiagonalAlignedWithOwner

\* C13 (as stated): when the offset puts the diagonal off the grid's main
\* diagonal path, its entries (at least lcm(colStride,rowStride) of them)
\* have gcd(colStride,rowStride) distinct owners,
\* and the alignment and root of the result are determined by (colAlign,
\* rowAlign, offset) alone.
C13_GcdManyOwners ==
    DiagonalTaken =>
        /\ ( /\ DiagPath(call.pre.grid, DiagonalOwner(call.pre, CallOffset)) # 0
             /\ CallDiagLength >= LCM(ColStride(call.pre), RowStride(call.pre)) )
             => Cardinality(DiagHolders) =
                   GCD(ColStride(call.pre), RowStride(call.pre))
        /\ DiagonalAlignedWithOwner

\* a diagonal off the main path of a 2 x 4 grid, held by four processes,
\* taken into a matrix whose caller had chosen another alignment
C13_Witness ==
    /\ DiagonalTaken
    /\ call.d.root # 0
    /\ Cardinality(DiagHolders) = LCM(ColStride(call.pre), RowStride(call.pre))
    /\ Cardinality(DiagHolders) > GCD(ColStride(call.pre), RowStride(call.pre))
    /\ call.args.d.colAlign # call.d.colAlign
    /\ call.args.d.root # call.d.root

\* the last call was a TransposeColAllGather that ran to its end
GatherRan ==
    /\ call.op = "TransposeColAllGather"
    /\ CallRan
    /\ \E p \in DOMAIN call.out : call.out[p] = "ok"

\* the local matrices of M have the dimensions its descriptor calls for
WellFormed(M) ==
    \A p \in Procs(M.grid) :
        /\ M.local[p].h = Length_(M.height, ColShift(M, p), ColStride(M))
        /\ M.local[p].w = Length_(M.width, RowShift(M, p), RowStride(M))

\* entry (i,j) of M, as the process that owns it holds it
EntryOf(M, i, j) ==
    LET q == CHOOSE x \in Procs(M.grid) :
                /\ Participating(M, x)
                /\ ColShift(M, x) = i % ColStride(M)
                /\ RowShift(M, x) = j % RowStride(M)
    IN  M.local[q].e[<<(i - ColShift(M, q)) \div ColStride(M),
                       (j - RowShift(M, q)) \div RowStride(M)>>]

\* the value the gathered matrix is to hold for the entry v of *this
AsGathered(v) ==
    IF call.args.conjugate /\ call.args.complex THEN -v ELSE v

\* C14: after TransposeColAllGather(A, conjugate) of a partitioned matrix,
\* A has size Width x Height and every participating process holds every
\* row it owns complete: A(j,i) = this(i,j), conjugated when conjugate is
\* true, for every global (j,i), none missing and none duplicated.
C14_GatherReproducesSource ==
    (GatherRan /\ WellFormed(call.pre)) =>
        /\ call.d.height = call.pre.width /\ call.d.width = call.pre.height
        /\ \A p \in Procs(call.d.grid) : Participating(call.d, p) =>
             /\ call.d.local[p].h =
                  Length_(call.pre.width, ColShift(call.d, p), ColStride(call.d))
             /\ call.d.local[p].w = call.pre.height
             /\ \A ab \in DOMAIN call.d.local[p].e :
                  call.d.local[p].e[ab] =
                     AsGathered(EntryOf(call.pre, GlobalCol(call.d, p, ab[2]),
                                                 GlobalRow(call.d, p, ab[1])))

\* the scenario of the specification: a 5 x 5 [MC,MR] matrix on a 2 x 2
\* grid with zero alignments, gathered with conjugation of complex entries
C14_Witness ==
    /\ GatherRan
    /\ call.pre.dist = <<"MC", "MR">>
    /\ call.pre.grid = [h |-> 2, w |-> 2]
    /\ call.pre.height = MaxGatherDim /\ call.pre.width = MaxGatherDim
    /\ call.pre.colAlign = 0 /\ call.pre.rowAlign = 0
    /\ call.args.conjugate /\ call.args.complex
    /\ \A p \in Procs(call.d.grid) : call.d.local[p].w = MaxGatherDim

\* TransposeColFilterFrom(X) returned on every process and its result was
\* gathered back into a free [V,UGath] matrix on the same grid
RoundTripGathered ==
    /\ call.op = "TransposeColAllGather"
    /\ call.of.op = "TransposeColFilterFrom"
    /\ \A p \in DOMAIN call.of.out : call.of.out[p] = "ok"
    /\ call.args.A.grid = call.pre.grid
    /\ ~call.args.A.colConstrained

\* the replicated matrix X the filter selected from
FilteredX ==
    Source(call.of.args.A.dist, call.of.args.A.grid, call.of.args.A.colAlign,
           call.of.args.A.rowAlign, call.of.args.A.height, call.of.args.A.width,
           call.of.args.A.seed)

\* the gathered matrix is X: its size, and every entry of every process
GatheredIsX ==
    /\ GatherRan
    /\ call.d.height = FilteredX.height /\ call.d.width = FilteredX.width
    /\ \A p \in Procs(call.d.grid) : Participating(call.d, p) =>
         /\ call.d.local[p].h =
              Length_(FilteredX.height, ColShift(call.d, p), ColStride(call.d))
         /\ call.d.local[p].w = FilteredX.width
         /\ \A ab \in DOMAIN call.d.local[p].e :
              call.d.local[p].e[ab] =
                 EntryOf(FilteredX, GlobalRow(call.d, p, ab[1]),
                                    GlobalCol(call.d, p, ab[2]))

\* C15: TransposeColFilterFrom(X) into a [U,V] matrix followed by
\* TransposeColAllGather back into a [V,UGath] matrix yields X at every
\* global index on every process, for every size and any alignment.
C15_FilterThenGatherIsIdentity ==
    RoundTripGathered => GatheredIsX

\* a round trip that did not give X back
C15_RoundTripLostX ==
    /\ RoundTripGathered
    /\ ~GatheredIsX
    /\ call.of.pre.rowConstrained
    /\ call.of.pre.rowAlign # call.of.args.A.colAlign

\* the round trip gives X back whenever the destination of the filter is
\* not held to a row alignment other than X's column alignment
RoundTripOfAligned ==
    ( /\ RoundTripGathered
      /\ (call.of.pre.rowConstrained => call.of.pre.rowAlign = call.of.args.A.colAlign) )
        => GatheredIsX

\* the processes are inside a reduce-scatter update whose behaviour is
\* defined (the arguments are on the grid and of the size of *this, or the
\* build checks that they are)
InUpdate ==
    /\ call.op \in {"SumScatterUpdate", "PartialRowSumScatterUpdate",
                    "PartialColSumScatterUpdate"}
    /\ \A p \in DOMAIN call.res.out : call.res.out[p] # "undefined"

\* process p is back from the call: it returned or threw
BackFromCall(p) == call.out[p] \in {"ok", "skipped", "LogicError"}

\* no member of a communicator is in the reduce-scatter, or past it, while
\* another member returned or threw without entering it
AllOrNone ==
    \A p \in DOMAIN call.out :
        /\ call.rs[p] <= 1
        /\ \A q \in CollectiveComm(call.op, call.pre, p) :
             ~(call.rs[p] = 1 /\ call.rs[q] = 0 /\ BackFromCall(q))

\* a process past the reduce-scatter has had every member's contribution
ResumedAfterAll ==
    \A p \in DOMAIN call.out :
        (call.rs[p] = 1 /\ BackFromCall(p)) =>
            \A q \in CollectiveComm(call.op, call.pre, p) : call.rs[q] = 1

AllBack == InUpdate /\ \A p \in DOMAIN call.out : BackFromCall(p)

\* C16: in SumScatterUpdate, PartialRowSumScatterUpdate and
\* PartialColSumScatterUpdate called by all processes with the same
\* arguments, the members of a communicator either all issue one
\* reduce-scatter or none does, a process resumes only after every member
\* has contributed, and every process eventually returns.
C16_NoProcessBlocksForever ==
    /\ [](InUpdate => (AllOrNone /\ ResumedAfterAll))
    /\ InUpdate ~> AllBack

\* the call is over on a 2 x 2 grid: two processes went through the
\* reduce-scatter of their communicator, the others returned before it
C16_Witness ==
    /\ AllBack
    /\ \E p \in DOMAIN call.out : call.out[p] = "skipped"
    /\ \E p \in DOMAIN call.out :
         /\ call.out[p] = "ok"
         /\ Cardinality(CollectiveComm(call.op, call.pre, p)) >= 2
         /\ this.local[p] # call.pre.local[p]

\* ---- C17
TikhonovRan == kernel.op = "Tikhonov"

\* height(W) < width(W)
Underdetermined == kernel.W.h < kernel.W.w

\* the rows of the embedded solution below the first n
EmbeddedS ==
    [h |-> kernel.XEmb.h - kernel.W.w, w |-> kernel.XEmb.w,
     e |-> [ij \in Idx(kernel.XEmb.h - kernel.W.w, kernel.XEmb.w) |->
              kernel.XEmb.e[<<ij[1] + kernel.W.w, ij[2]>>]]]

\* W X + G S
ConstraintValue ==
    [h |-> kernel.W.h, w |-> kernel.X.w,
     e |-> [ij \in Idx(kernel.W.h, kernel.X.w) |->
              MatMulEntry(kernel.W, kernel.X, ij[1], ij[2])
              + MatMulEntry(kernel.G, EmbeddedS, ij[1], ij[2])]]

\* C17: after a sparse or distributed-sparse Tikhonov solve, if
\* height(W) < width(W) the embedded right-hand side is B and the returned X
\* with S satisfies W X + G S = B; if height(W) >= width(W) the embedded
\* right-hand side is [B; 0].
C17_EmbeddedRightHandSide ==
    TikhonovRan =>
        IF Underdetermined
        THEN /\ kernel.BEmb = kernel.B
             /\ kernel.X = TopRows(kernel.XEmb, kernel.W.w, kernel.XEmb.w)
             /\ ConstraintValue = kernel.B
        ELSE kernel.BEmb = VCat(kernel.B, Zeros(kernel.W.w, kernel.B.w))

\* a wide W with a nonzero B was solved against a zero right-hand side
C17_ZeroRightHandSide ==
    /\ TikhonovRan
    /\ Underdetermined
    /\ kernel.kind = "dist"
    /\ kernel.B # Zeros(kernel.B.h, kernel.B.w)
    /\ kernel.BEmb = Zeros(kernel.B.h, kernel.B.w)
    /\ kernel.X = Zeros(kernel.W.w, 1)
    /\ ConstraintValue # kernel.B

\* the tall case is as stated
TallEmbedding ==
    (TikhonovRan /\ ~Underdetermined) => kernel.BEmb = VCat(kernel.B, Zeros(kernel.W.w, kernel.B.w))

\* ---- C18
ENRan == kernel.op = "EN"

\* the Q of the header comment: 2*lambda_2 on the first 2n diagonal entries,
\* 2 on the last m, zero elsewhere
HeaderQ ==
    [h |-> 2 * kernel.n + kernel.m, w |-> 2 * kernel.n + kernel.m,
     e |-> [ij \in Idx(2 * kernel.n + kernel.m, 2 * kernel.n + kernel.m) |->
              IF ij[1] # ij[2] THEN 0
              ELSE IF ij[1] < 2 * kernel.n THEN 2 * kernel.lambda2 ELSE 2]]

\* C18: every EN variant (dense, distributed dense, sparse, distributed
\* sparse) builds the (2n+m) x (2n+m) diagonal Q with 2*lambda_2 on its first
\* 2n diagonal entries and 2 on its last m.
C18_SameQuadraticTerm == ENRan => kernel.Q = HeaderQ

\* a variant other than the distributed sparse one has built a Q whose last
\* m diagonal entries are 1
C18_UnitResidualBlock ==
    /\ ENRan
    /\ kernel.kind = "dense"
    /\ kernel.m > 0
    /\ kernel.n > 0
    /\ \A i \in (2 * kernel.n) .. (2 * kernel.n + kernel.m - 1) : kernel.Q.e[<<i, i>>] = 1
    /\ \A i \in 0 .. (2 * kernel.n - 1) : kernel.Q.e[<<i, i>>] = 2 * kernel.lambda2

\* the distributed sparse variant builds the Q of the header comment, and
\* the three others agree with one another
DistSparseBuildsHeaderQ ==
    ENRan => IF kernel.kind = "distSparse" THEN kernel.Q = HeaderQ
             ELSE kernel.Q = ENQDense(kernel.m, kernel.n, kernel.lambda2)

\* ---- C19
LLLRan == kernel.op = "LLL"

LLLReturned == LLLRan /\ kernel.out = "returned"

\* (BIn * U)(i,j)
BInTimesU(i, j) == MatMulEntry(kernel.BIn, kernel.U, i, j)

\* column j of B is BIn * U's
ColumnKept(j) == \A i \in 0 .. (kernel.m - 1) : BInTimesU(i, j) = kernel.B.e[<<i, j>>]

\* column j of B is zero and BIn * U's has a norm of at most zeroTol
ColumnForcedToZero(j) ==
    /\ j >= kernel.n - kernel.nullity
    /\ \A i \in 0 .. (kernel.m - 1) : kernel.B.e[<<i, j>>] = 0
    /\ SumOver([i \in 0 .. (kernel.m - 1) |-> BInTimesU(i, j) * BInTimesU(i, j)], 0, kernel.m)
         <= kernel.zeroTolSq

Determinant2(M) == M.e[<<0, 0>>] * M.e[<<1, 1>>] - M.e[<<0, 1>>] * M.e[<<1, 0>>]

Determinant3(M) ==
      M.e[<<0, 0>>] * (M.e[<<1, 1>>] * M.e[<<2, 2>>] - M.e[<<1, 2>>] * M.e[<<2, 1>>])
    - M.e[<<0, 1>>] * (M.e[<<1, 0>>] * M.e[<<2, 2>>] - M.e[<<1, 2>>] * M.e[<<2, 0>>])
    + M.e[<<0, 2>>] * (M.e[<<1, 0>>] * M.e[<<2, 1>>] - M.e[<<1, 1>>] * M.e[<<2, 0>>])

Determinant(M) ==
    IF M.h = 1 THEN M.e[<<0, 0>>] ELSE IF M.h = 2 THEN Determinant2(M) ELSE Determinant3(M)

\* integer-valued with determinant +1 or -1
Unimodular(M) == Determinant(M) \in {-1, 1}

\* C19 (as stated): with formU, on return BIn * U = B and U is unimodular.
C19_BasisTimesUIsResult ==
    (LLLReturned /\ kernel.formU) =>
        /\ \A j \in 0 .. (kernel.n - 1) : ColumnKept(j)
        /\ Unimodular(kernel.U)

\* C19 (amended): with formU, U is unimodular throughout, and every column
\* of B is the column of BIn * U, except the columns deemed zero, which are
\* zero in B while BIn * U's column has a norm of at most zeroTol.
C19_BasisTimesUUpToForcedZeros ==
    (LLLRan /\ kernel.out # "LogicError" /\ kernel.formU) =>
        /\ \A j \in 0 .. (kernel.n - 1) : ColumnKept(j) \/ ColumnForcedToZero(j)
        /\ Unimodular(kernel.U)

\* a run with formU that swapped columns, rounded with a non-zero
\* coefficient, stepped back from k > 1 and returned a full-rank basis
C19_Witness ==
    /\ LLLReturned
    /\ kernel.formU
    /\ kernel.swapped
    /\ kernel.rounded
    /\ kernel.stepped
    /\ kernel.nullity = 0
    /\ kernel.U # Identity(kernel.n)

\* a column of non-zero norm was deemed zero
ForcedNonzeroColumn == LLLReturned /\ kernel.formU /\ kernel.forced

\* ---- C20
\* info.rank
LLLRank == kernel.n - kernel.nullity

\* R has the entries (i,i), (i,i+1), (i+1,i+1) and they satisfy
\* delta R(i,i)^2 <= R(i+1,i+1)^2 + |R(i,i+1)|^2 with R(i+1,i+1) > zeroTol
PairReduced(i) ==
    /\ i + 1 < kernel.m
    /\ LovaszTest(kernel.QR[<<i, i>>], kernel.QR[<<i, i + 1>>], kernel.QR[<<i + 1, i + 1>>],
                  kernel.zeroTolSq)

\* C20: at every head of the main loop each adjacent pair (i,i+1) with
\* i+1 < k satisfies the delta-Lovasz condition with R(i+1,i+1) > zeroTol,
\* and when BlockedAlg returns this holds for every i with 0 <= i < rank-1.
C20_LovaszReducedOnReturn ==
    (LLLRan /\ kernel.out # "LogicError") =>
        /\ \A i \in 0 .. (kernel.k - 2) : i + 1 < LLLRank => PairReduced(i)
        /\ kernel.out = "returned" => \A i \in 0 .. (LLLRank - 2) : PairReduced(i)

\* BlockedAlg returned a rank above the number of rows of R, after reading
\* R(k,k) where QR has no row k
C20_RankAboveHeight ==
    /\ LLLReturned
    /\ kernel.outside
    /\ LLLRank > kernel.m
    /\ kernel.k = LLLRank

\* while every read of R(k,k) was inside QR, the claim holds
ReducedWhileInside ==
    (LLLRan /\ kernel.out # "LogicError" /\ ~kernel.outside) =>
        /\ \A i \in 0 .. (kernel.k - 2) : i + 1 < LLLRank => PairReduced(i)
        /\ kernel.out = "returned" => \A i \in 0 .. (LLLRank - 2) : PairReduced(i)

\* the columns before k have a positive diagonal entry in R, and the entries
\* above it were computed against the diagonal entries R now holds
QRUpToDate ==
    (LLLRan /\ kernel.out # "LogicError" /\ ~kernel.outside) =>
        \A j \in 0 .. (Min(kernel.k, LLLRank) - 1) :
            /\ RLess(RInt(kernel.zeroTolSq), RSq(kernel.QR[<<j, j>>]))
            /\ kernel.QR[<<j, j>>].b = RDot(kernel.V[j], kernel.V[j], kernel.m)
            /\ \A i \in 0 .. (j - 1) :
                  /\ kernel.QR[<<i, j>>].b = kernel.QR[<<i, i>>].b
                  /\ kernel.QR[<<i, j>>].c
                       = RDiv(RDot(ColOf(kernel.B, j), kernel.V[i], kernel.m), kernel.QR[<<i, i>>].b)

\* a debug build stops at the read of R(k,k) outside QR
StoppedAtRead == LLLRan /\ kernel.out = "LogicError" /\ kernel.outside

\* a call of trmm::RLN, RLNA or RLNC was made
TrmmRan == kernel.op = "RLN"

TrmmReturned == TrmmRan /\ kernel.out = "ok"

\* L is square and X.Width() = L.Height()
TrmmConformal ==
    kernel.L.h = kernel.L.w /\ kernel.X0.w = kernel.L.h

\* entry (i,j) of tril(L), or of trilu(L) for a unit diagonal
TrilOfL(i, j) ==
    IF i < j THEN 0
    ELSE IF i = j /\ kernel.diag = "UNIT" THEN 1
    ELSE kernel.L.e[<<i, j>>]

\* X0 tril(L)
TrilProduct ==
    [ij \in Idx(kernel.m, kernel.n) |->
        SumOver([i \in 0 .. (kernel.n - 1) |-> kernel.X0.e[<<ij[1], i>>] * TrilOfL(i, ij[2])],
                0, kernel.n)]

RECURSIVE RLNARun(_)
RLNARun(K) == IF K.k >= K.m THEN K ELSE RLNARun(RLNAStep(K, FALSE))

RECURSIVE RLNCRun(_)
RLNCRun(K) == IF K.k >= K.n THEN K ELSE RLNCRun(RLNCStep(K))

\* the call as it started
TrmmStarted == [kernel EXCEPT !.X = kernel.X0, !.k = 0]

\* the ranges the loop visited are consecutive from 0 to extent, none empty
Tiles(ranges, extent) ==
    /\ \A a \in 1 .. Len(ranges) : ranges[a][1] < ranges[a][2]
    /\ \A a \in 1 .. (Len(ranges) - 1) : ranges[a][2] = ranges[a + 1][1]
    /\ IF Len(ranges) = 0 THEN extent = 0
       ELSE ranges[1][1] = 0 /\ ranges[Len(ranges)][2] = extent

\* C21: trmm::RLN leaves X = X tril(L) (trilu(L) for a unit diagonal) on
\* either route, RLNA and RLNC give the same X on the same operands, every
\* block of X is read before anything changed it and is overwritten exactly
\* once, and the ranges the block loop visits are disjoint and cover every
\* row (RLNA) or every column (RLNC) exactly once.
C21_BothRoutesGiveXTrilL ==
    (TrmmReturned /\ TrmmConformal) =>
        /\ kernel.X.e = TrilProduct
        /\ RLNARun(TrmmStarted).X = RLNCRun(TrmmStarted).X
        /\ kernel.fresh
        /\ \A ij \in Idx(kernel.m, kernel.n) : kernel.over[ij] = 1
        /\ Tiles(kernel.ranges, IF kernel.route = "A" THEN kernel.m ELSE kernel.n)

\* trmm::RLN took the RLNA route over two row blocks and changed X
C21_RLNAOverTwoBlocks ==
    /\ TrmmReturned
    /\ TrmmConformal
    /\ kernel.entry = "RLN"
    /\ kernel.route = "A"
    /\ Len(kernel.ranges) = 2
    /\ kernel.X # kernel.X0
    /\ \E ij \in Idx(kernel.L.h, kernel.L.w) : ij[1] < ij[2] /\ kernel.L.e[ij] # 0

\* trmm::RLN took the RLNC route over several column blocks
RLNCOverBlocks ==
    /\ TrmmReturned
    /\ TrmmConformal
    /\ kernel.entry = "RLN"
    /\ kernel.route = "C"
    /\ Len(kernel.ranges) >= 2
    /\ kernel.X # kernel.X0

\* C22: nonconformal dimensions (L not square, or X.Width() # L.Height())
\* are detected before any communication or write to X on both routes: no
\* redistribution is issued, X keeps its value, and the call ends in a
\* logic error, never in a normal return.
C22_NonconformalStopsBeforeAnything ==
    (TrmmRan /\ ~TrmmConformal) =>
        /\ kernel.redists = 0
        /\ kernel.X = kernel.X0
        /\ kernel.out # "ok"
        /\ (kernel.out = "running" => kernel.k < (IF kernel.route = "A" THEN kernel.m ELSE kernel.n))

\* a debug build on the RLNA route raises the logic error only inside
\* LocalAccumulateRLN, after X1 was redistributed
C22_DetectedAfterRedistribution ==
    /\ TrmmRan
    /\ ~TrmmConformal
    /\ debug
    /\ kernel.entry = "RLN"
    /\ kernel.route = "A"
    /\ kernel.out = "LogicError"
    /\ kernel.redists > 0

\* a release build returns from nonconformal operands with X changed
NonconformalReturned ==
    /\ TrmmReturned
    /\ ~TrmmConformal
    /\ ~debug
    /\ kernel.entry = "RLN"
    /\ kernel.X # kernel.X0

\* a debug build on the RLNA route returns from nonconformal operands when
\* X has no rows
NonconformalUnnoticed ==
    /\ TrmmReturned
    /\ ~TrmmConformal
    /\ debug
    /\ kernel.route = "A"

\* a debug build on the RLNC route stops nonconformal operands at entry, and
\* no debug build writes to X
DebugKeepsX ==
    (TrmmRan /\ ~TrmmConformal /\ debug) =>
        /\ kernel.X = kernel.X0
        /\ kernel.route = "C" => (kernel.out = "LogicError" /\ kernel.redists = 0)

\* GetDiagonal( d, offset ) was called with a matrix d on the grid of *this
GetDiagonalCalled ==
    /\ call.op = "GetDiagonal"
    /\ call.args.d.grid = call.pre.grid

\* iStart and jStart of the diagonal loops on process p
IStart(p) == ColShift(call.d, p) + Max(-CallOffset, 0)

JStart(p) == ColShift(call.d, p) + Max(CallOffset, 0)

\* a is a multiple c*b with c >= 0
NonNegativeMultiple(a, b) == a >= 0 /\ a % b = 0

\* C23: GetDiagonal(d, offset) resizes d to DiagonalLength(offset) x 1 and
\* d(k) = M(k + max(-offset,0), k + max(offset,0)) for every k; on every
\* participating process iStart - ColShift is a non-negative multiple of
\* colStride, jStart - RowShift one of rowStride and d.ColStride a multiple
\* of both strides, so that every local index (iLoc,jLoc) the loop reads is
\* inside the local matrix and holds the intended global entry.
C23_GetDiagonalReadsTheDiagonal ==
    GetDiagonalCalled =>
        /\ CallRan
        /\ call.d.height = DiagonalLength(call.pre.height, call.pre.width, CallOffset)
        /\ call.d.width = 1
        /\ \A k \in 0 .. (call.d.height - 1) :
             \E p \in Procs(call.pre.grid) :
                /\ Participating(call.d, p)
                /\ \E kLoc \in 0 .. (call.d.local[p].h - 1) : GlobalRow(call.d, p, kLoc) = k
        /\ \A p \in Procs(call.pre.grid) :
             Participating(call.d, p) =>
                /\ NonNegativeMultiple(IStart(p) - ColShift(call.pre, p), ColStride(call.pre))
                /\ NonNegativeMultiple(JStart(p) - RowShift(call.pre, p), RowStride(call.pre))
                /\ NonNegativeMultiple(ColStride(call.d), ColStride(call.pre))
                /\ NonNegativeMultiple(ColStride(call.d), RowStride(call.pre))
                /\ \A kLoc \in 0 .. (call.d.local[p].h - 1) :
                     LET k == GlobalRow(call.d, p, kLoc)
                         ab == call.wr[p][kLoc]
                     IN  /\ ab \in DOMAIN call.pre.local[p].e
                         /\ GlobalRow(call.pre, p, ab[1]) = k + Max(-CallOffset, 0)
                         /\ GlobalCol(call.pre, p, ab[2]) = k + Max(CallOffset, 0)
                         /\ call.d.local[p].e[<<kLoc, 0>>] = call.pre.local[p].e[ab]

\* a diagonal below the main one of an [MC,MR] matrix with distinct
\* alignments on a grid whose dimensions are not coprime, some process
\* reading several entries
C23_Witness ==
    /\ GetDiagonalCalled
    /\ call.pre.dist = <<"MC", "MR">>
    /\ GCD(call.pre.grid.h, call.pre.grid.w) > 1
    /\ call.pre.grid.h # call.pre.grid.w
    /\ CallOffset < 0
    /\ call.pre.colAlign # call.pre.rowAlign
    /\ \E p \in Procs(call.pre.grid) :
         /\ Participating(call.d, p)
         /\ call.d.local[p].h >= 2
         /\ ColShift(call.d, p) > 0

\* SetDiagonal or UpdateDiagonal was called
DiagonalWritten == call.op \in {"SetDiagonal", "UpdateDiagonal"}

\* entry k of the diagonal d of the last call
DiagEntry(k) == EntryOf(call.d, k, 0)

\* the value SetDiagonal or UpdateDiagonal is to leave where v was, for
\* entry k of d
DiagonalValue(v, k) ==
    IF call.op = "SetDiagonal" THEN DiagEntry(k)
    ELSE v + call.args.gamma * DiagEntry(k)

\* C24: SetDiagonal(d, offset) and UpdateDiagonal(gamma, d, offset) change
\* only entries (i,j) with j - i = offset: SetDiagonal leaves d(k) there and
\* UpdateDiagonal adds gamma*d(k); each diagonal entry is written exactly once
\* by the process that holds it; every other entry, the global dimensions,
\* the alignments and d (still the diagonal it was taken from) are unchanged.
C24_OnlyTheDiagonalChanges ==
    DiagonalWritten =>
        /\ CallRan
        /\ this.height = call.pre.height /\ this.width = call.pre.width
        /\ this.colAlign = call.pre.colAlign /\ this.rowAlign = call.pre.rowAlign
        /\ this.root = call.pre.root
        /\ \A k \in 0 .. (call.d.height - 1) :
             DiagEntry(k) = EntryOf(call.of, k + Max(-CallOffset, 0), k + Max(CallOffset, 0))
        /\ \A p \in Procs(this.grid) :
             /\ DOMAIN this.local[p].e = DOMAIN call.pre.local[p].e
             /\ Visited(p) = LocalDiagonal(call.pre, p, CallOffset)
             /\ Cardinality(Visited(p)) = Cardinality(DOMAIN call.wr[p])
             /\ \A ab \in DOMAIN this.local[p].e :
                  this.local[p].e[ab] =
                     IF /\ Participating(call.pre, p)
                        /\ OnDiagonal(GlobalRow(call.pre, p, ab[1]), GlobalCol(call.pre, p, ab[2]),
                                      call.pre.height, call.pre.width, CallOffset)
                     THEN DiagonalValue(call.pre.local[p].e[ab],
                                        GlobalRow(call.pre, p, ab[1]) - Max(-CallOffset, 0))
                     ELSE call.pre.local[p].e[ab]

\* SetDiagonal put back a diagonal that UpdateDiagonal had changed, above
\* the main diagonal of a matrix on a grid with non-coprime dimensions,
\* some process writing several entries
C24_Witness ==
    /\ call.op = "SetDiagonal"
    /\ CallRan
    /\ this.local # call.pre.local
    /\ TwoDimensional(this)
    /\ GCD(this.grid.h, this.grid.w) > 1
    /\ CallOffset > 0
    /\ \E p \in Procs(this.grid) : Cardinality(Visited(p)) >= 2

\* UpdateDiagonal with a factor other than 0 and 1 changed the matrix
UpdatedByGamma ==
    /\ call.op = "UpdateDiagonal"
    /\ CallRan
    /\ call.args.gamma > 1
    /\ this.local # call.pre.local
    /\ CallOffset < 0

\* PartialRowSumScatterUpdate( alpha, A ) in the aligned case, A of the size
\* of *this on its grid
AlignedRowUpdate ==
    /\ call.op = "PartialRowSumScatterUpdate"
    /\ CallA.grid = call.pre.grid
    /\ CallA.height = call.pre.height /\ CallA.width = call.pre.width
    /\ call.pre.rowAlign % RowStride(CallA) = CallA.rowAlign

\* PartialColSumScatterUpdate( alpha, A ) in the aligned case
AlignedColUpdate ==
    /\ call.op = "PartialColSumScatterUpdate"
    /\ CallA.grid = call.pre.grid
    /\ CallA.height = call.pre.height /\ CallA.width = call.pre.width
    /\ call.pre.colAlign % ColStride(CallA) = CallA.colAlign

\* process q holds entry (i,j) of A
Holds(A, q, i, j) ==
    /\ i >= ColShift(A, q) /\ (i - ColShift(A, q)) % ColStride(A) = 0
    /\ j >= RowShift(A, q) /\ (j - RowShift(A, q)) % RowStride(A) = 0

\* the local A(i,j) of process q
LocalEntry(A, q, i, j) ==
    A.local[q].e[<<(i - ColShift(A, q)) \div ColStride(A),
                   (j - RowShift(A, q)) \div RowStride(A)>>]

\* every local entry of *this on p is its old value plus alpha times the
\* sum of the local A(i,j) of the members of comm
UpdatedBySumOver(p, comm) ==
    \A ab \in DOMAIN call.pre.local[p].e :
        LET i == GlobalRow(call.pre, p, ab[1])
            j == GlobalCol(call.pre, p, ab[2])
        IN  /\ \A q \in comm : Holds(CallA, q, i, j)
            /\ this.local[p].e[ab] =
                 call.pre.local[p].e[ab]
                 + call.args.alpha * SumComm([q \in comm |-> LocalEntry(CallA, q, i, j)], comm)

\* the member of rank k of the partial-union row (column) communicator of q
\* is the one process whose row (column) shift segment k was packed for
RowSegmentReachesRankK(q, k) ==
    /\ Cardinality({ p \in PartialUnionRowComm(call.pre, q) :
                       PartialUnionRowRank(call.pre, p) = k }) = 1
    /\ \A p \in PartialUnionRowComm(call.pre, q) :
         PartialUnionRowRank(call.pre, p) = k =>
            RowShift(call.pre, p) = PRowThisRowShift(call.pre, q, k)

ColSegmentReachesRankK(q, k) ==
    /\ Cardinality({ p \in PartialUnionColComm(call.pre, q) :
                       PartialUnionColRank(call.pre, p) = k }) = 1
    /\ \A p \in PartialUnionColComm(call.pre, q) :
         PartialUnionColRank(call.pre, p) = k =>
            ColShift(call.pre, p) = PColThisColShift(call.pre, q, k)

\* the sum and the shifts of the aligned partial row update
RowUpdateAddsTheSum ==
    /\ this.height = call.pre.height /\ this.width = call.pre.width
    /\ \A p \in Procs(call.pre.grid) :
         Participating(call.pre, p) =>
            /\ call.out[p] = "ok"
            /\ UpdatedBySumOver(p, PartialUnionRowComm(call.pre, p))
            /\ \A k \in 0 .. (PartialUnionRowStride(call.pre) - 1) :
                 /\ NonNegativeMultiple(PRowThisRowShift(call.pre, p, k) - RowShift(CallA, p),
                                        PartialRowStride(call.pre))
                 /\ RowSegmentReachesRankK(p, k)

ColUpdateAddsTheSum ==
    /\ this.height = call.pre.height /\ this.width = call.pre.width
    /\ \A p \in Procs(call.pre.grid) :
         Participating(call.pre, p) =>
            /\ call.out[p] = "ok"
            /\ UpdatedBySumOver(p, PartialUnionColComm(call.pre, p))
            /\ \A k \in 0 .. (PartialUnionColStride(call.pre) - 1) :
                 /\ NonNegativeMultiple(PColThisColShift(call.pre, p, k) - ColShift(CallA, p),
                                        PartialColStride(call.pre))
                 /\ ColSegmentReachesRankK(p, k)

\* the source offset of every segment lies within A's local width (height)
OffsetsInside ==
    \A p \in Procs(call.pre.grid) :
        Participating(call.pre, p) =>
           /\ AlignedRowUpdate =>
                \A k \in 0 .. (PartialUnionRowStride(call.pre) - 1) :
                    PRowThisRowOffset(call.pre, CallA, p, k) < CallA.local[p].w
           /\ AlignedColUpdate =>
                \A k \in 0 .. (PartialUnionColStride(call.pre) - 1) :
                    PColThisColOffset(call.pre, CallA, p, k) < CallA.local[p].h

\* the source offset of every segment that is not empty lies within A's
\* local width (height), and so does every column (row) read from there
OffsetsOfSegmentsInside ==
    \A p \in Procs(call.pre.grid) :
        Participating(call.pre, p) =>
           /\ AlignedRowUpdate =>
                \A k \in 0 .. (PartialUnionRowStride(call.pre) - 1) :
                    PRowThisLocalWidth(call.pre, p, k) > 0 =>
                       /\ PRowThisRowOffset(call.pre, CallA, p, k) < CallA.local[p].w
                       /\ PRowSrc(call.pre, CallA, p, k, 0,
                                  PRowThisLocalWidth(call.pre, p, k) - 1)[2] < CallA.local[p].w
           /\ AlignedColUpdate =>
                \A k \in 0 .. (PartialUnionColStride(call.pre) - 1) :
                    PColThisLocalHeight(call.pre, p, k) > 0 =>
                       /\ PColThisColOffset(call.pre, CallA, p, k) < CallA.local[p].h
                       /\ PColSrc(call.pre, CallA, p, k,
                                  PColThisLocalHeight(call.pre, p, k) - 1, 0)[1] < CallA.local[p].h

\* C25: in the aligned case PartialRowSumScatterUpdate(alpha, A) leaves
\* this(i,j) = old + alpha * (sum over the members of the partial-union row
\* communicator of their local A(i,j)); for every k below rowStrideUnion
\* thisRowShift - A.RowShift is a non-negative multiple of rowStridePart, the
\* source column offset lies within A's local width and segment k goes to
\* the member of rank k; the same for PartialColSumScatterUpdate with rows
\* and columns exchanged.
C25_AlignedPartialUpdate ==
    /\ AlignedRowUpdate => RowUpdateAddsTheSum
    /\ AlignedColUpdate => ColUpdateAddsTheSum
    /\ OffsetsInside

\* an aligned PartialColSumScatterUpdate on a destination whose rows are
\* distributed too read A.Width() columns where A holds fewer
C25_ReadPastLocalWidth ==
    /\ AlignedColUpdate
    /\ RowStride(call.pre) > 1
    /\ call.pre.height > 0
    /\ \E p \in Procs(call.pre.grid) :
         /\ Participating(call.pre, p)
         /\ CallA.local[p].w < call.pre.width
         /\ call.out[p] = "undefined"

\* the same with rows and columns exchanged
ReadPastLocalHeight ==
    /\ AlignedRowUpdate
    /\ ColStride(call.pre) > 1
    /\ call.pre.width > 0
    /\ \E p \in Procs(call.pre.grid) :
         /\ Participating(call.pre, p)
         /\ CallA.local[p].h < call.pre.height
         /\ call.out[p] = "undefined"

\* every process holds all rows (columns) of the columns (rows) it owns
WholeColumns == \A p \in Procs(call.pre.grid) : call.pre.local[p].h = call.pre.height

WholeRows == \A p \in Procs(call.pre.grid) : call.pre.local[p].w = call.pre.width

\* where the other dimension is not split, the update adds the sum and the
\* offset of every segment that is not empty lies inside A
UpdateOfWholeColumnsOrRows ==
    /\ (AlignedRowUpdate /\ WholeColumns) => RowUpdateAddsTheSum
    /\ (AlignedColUpdate /\ WholeRows) => ColUpdateAddsTheSum
    /\ ((AlignedRowUpdate /\ WholeColumns) \/ (AlignedColUpdate /\ WholeRows))
          => OffsetsOfSegmentsInside

\* an update that added the sum of the copies of several processes
SummedOverSeveral ==
    /\ AlignedRowUpdate
    /\ WholeColumns
    /\ PartialUnionRowStride(call.pre) > 1
    /\ this.local # call.pre.local

\* TransposeColSumScatterUpdate or TransposePartialColSumScatterUpdate was
\* called on a destination of size A.Width() x A.Height(), A on its grid
TransposedUpdateCalled ==
    /\ call.op \in {"TransposeColSumScatterUpdate", "TransposePartialColSumScatterUpdate"}
    /\ CallA.grid = call.pre.grid
    /\ call.pre.height = CallA.width /\ call.pre.width = CallA.height

\* the [V,U] intermediate of a [U,V] destination, as far as its
\* communicators are concerned
Intermediate ==
    [call.pre EXCEPT !.dist = <<call.pre.dist[2], call.pre.dist[1]>>,
                     !.colAlign = call.pre.rowAlign,
                     !.rowAlign = call.pre.colAlign]

\* the processes whose copies of A are summed for process p
SummedOver(p) ==
    IF call.op = "TransposeColSumScatterUpdate"
    THEN RowCommOf(Intermediate, p)
    ELSE PartialUnionRowComm(Intermediate, p)

\* S(j,i) on process p: the sum of the local A(j,i) of the members of the
\* communicator that hold it
SummedEntry(p, j, i) ==
    LET holders == { q \in SummedOver(p) : Holds(CallA, q, j, i) }
    IN  SumComm([q \in holders |-> LocalEntry(CallA, q, j, i)], holders)

\* the value the update is to leave at (i,j) on process p
TransposedSum(p, i, j) ==
    EntryOf(call.pre, i, j)
    + call.args.alpha * (IF call.args.conjugate
                         THEN Conj(call.args.complex, SummedEntry(p, j, i))
                         ELSE SummedEntry(p, j, i))

\* C26: TransposeColSumScatterUpdate(alpha, A, conjugate) and
\* TransposePartialColSumScatterUpdate on a destination of global size
\* A.Width() x A.Height() leave this(i,j) = old + alpha * S(j,i) (conjugated
\* when asked), S the reduce-scattered sum; the destination is neither
\* resized nor zeroed, so that its contents survive any realignment, and
\* every local read BLoc(jLoc,iLoc) lies within the intermediate's local
\* dimensions.
C26_TransposedUpdateAddsTheSum ==
    TransposedUpdateCalled =>
        /\ CallRan
        /\ this.height = call.pre.height /\ this.width = call.pre.width
        /\ WellFormed(this)
        /\ \A p \in Procs(this.grid) :
             Participating(this, p) =>
                \A ab \in DOMAIN this.local[p].e :
                    this.local[p].e[ab] =
                       TransposedSum(p, GlobalRow(this, p, ab[1]), GlobalCol(this, p, ab[2]))

\* the update emptied a destination whose free alignment was replaced by
\* the intermediate's
C26_RealignedAndEmptied ==
    /\ TransposedUpdateCalled
    /\ call.op = "TransposeColSumScatterUpdate"
    /\ ~call.pre.rowConstrained
    /\ call.pre.height > 0 /\ call.pre.width > 0
    /\ this.rowAlign # call.pre.rowAlign
    /\ this.height = 0 /\ this.width = 0
    /\ CallRan

\* the update of a destination held to its alignments read the
\* intermediate, aligned with A instead, outside its local matrix
ReadOutsideIntermediate ==
    /\ TransposedUpdateCalled
    /\ call.pre.rowConstrained
    /\ call.pre.rowAlign # CallA.colAlign
    /\ \E p \in DOMAIN call.out : call.out[p] \in {"LogicError", "undefined"}

\* the row alignment of *this is the column alignment of A, which the
\* intermediate takes, and its column alignment and root are those the
\* intermediate has
AlignedWithA ==
    /\ call.pre.rowAlign = CallA.colAlign
    /\ call.pre.colConstrained \/ call.pre.colAlign = 0
    /\ call.pre.colConstrained \/ call.pre.rowConstrained \/ call.pre.root = 0
    /\ call.op = "TransposePartialColSumScatterUpdate" =>
          /\ call.pre.colAlign = CallA.rowAlign
          /\ Stride(call.pre.dist[2], call.pre.grid) = 1 \/ CallA.height = 0

\* where no alignment has to change the update adds the transposed sum
UpdateOfAlignedAddsTheSum ==
    (TransposedUpdateCalled /\ AlignedWithA) =>
        /\ CallRan
        /\ this.height = call.pre.height /\ this.width = call.pre.width
        /\ \A p \in Procs(this.grid) :
             Participating(this, p) =>
                \A ab \in DOMAIN this.local[p].e :
                    this.local[p].e[ab] =
                       TransposedSum(p, GlobalRow(this, p, ab[1]), GlobalCol(this, p, ab[2]))

\* an aligned update that added the conjugated sum over several processes
AlignedUpdateMade ==
    /\ TransposedUpdateCalled
    /\ AlignedWithA
    /\ call.args.conjugate /\ call.args.complex
    /\ this.local # call.pre.local
    /\ GridSize(this.grid) > 1
    /\ call.pre.rowAlign > 0

\* the last call was one of the six routines, handed a source on the grid
\* of *this
TransposeFromCalled ==
    /\ call.op \in TransposeFromRoutines
    /\ CallA.grid = call.pre.grid

\* the last call summed the copies of A
SumScatterFromCalled ==
    call.op \in {"TransposeColSumScatterFrom", "TransposePartialColSumScatterFrom"}

\* the processes whose copies of A make up the entries process p receives
ResultOver(p) ==
    CASE call.op = "TransposeColSumScatterFrom" ->
            RowCommOf([Intermediate EXCEPT !.colAlign = call.filt.colAlign,
                                           !.rowAlign = call.filt.rowAlign], p)
      [] call.op = "TransposePartialColSumScatterFrom" ->
            PartialUnionRowComm([Intermediate EXCEPT !.colAlign = call.filt.colAlign,
                                                     !.rowAlign = call.filt.rowAlign], p)
      [] OTHER -> {p}

\* the result entry (j,i) on process p: the selected or summed A(j,i)
ResultEntry(p, j, i) ==
    LET holders == { q \in ResultOver(p) : Holds(CallA, q, j, i) }
    IN  SumComm([q \in holders |-> LocalEntry(CallA, q, j, i)], holders)

\* *this is A.Width x A.Height and holds the (conjugate-)transposed result
HoldsTransposedResult ==
    /\ this.height = CallA.width /\ this.width = CallA.height
    /\ WellFormed(this)
    /\ \A p \in Procs(this.grid) :
         Participating(this, p) =>
            \A ab \in DOMAIN this.local[p].e :
               LET i == GlobalRow(this, p, ab[1])
                   j == GlobalCol(this, p, ab[2])
               IN  /\ \E q \in ResultOver(p) : Holds(CallA, q, j, i)
                   /\ this.local[p].e[ab] =
                        IF call.args.conjugate
                        THEN Conj(call.args.complex, ResultEntry(p, j, i))
                        ELSE ResultEntry(p, j, i)

\* C27: for Transpose{Col,Row,PartialCol,PartialRow}FilterFrom and
\* Transpose{Col,PartialCol}SumScatterFrom a constrained column (row)
\* alignment of the destination is unchanged by the call and is the row
\* (column) alignment of the intermediate, an unconstrained one is set from
\* the intermediate, and afterwards the destination is A.Width x A.Height
\* with this(i,j) the (conjugate-)transposed result entry (j,i).
C27_TransposedFromFollowsAlignments ==
    TransposeFromCalled =>
        /\ CallRan
        /\ call.pre.colConstrained =>
              this.colAlign = call.pre.colAlign /\ call.filt.rowAlign = call.pre.colAlign
        /\ call.pre.rowConstrained =>
              this.rowAlign = call.pre.rowAlign /\ call.filt.colAlign = call.pre.rowAlign
        /\ ~call.pre.colConstrained => this.colAlign = call.filt.rowAlign
        /\ ~call.pre.rowConstrained => this.rowAlign = call.filt.colAlign
        /\ HoldsTransposedResult

\* TransposeColSumScatterFrom returned with an intermediate aligned with A
\* instead of the row alignment the destination is held to
C27_IntermediateTookAlignmentOfA ==
    /\ TransposeFromCalled
    /\ call.op = "TransposeColSumScatterFrom"
    /\ CallRan
    /\ call.pre.rowConstrained
    /\ this.rowAlign = call.pre.rowAlign
    /\ call.filt.colAlign = CallA.colAlign
    /\ call.filt.colAlign # call.pre.rowAlign
    /\ CallA.height > 0 /\ CallA.width > 0

\* the copy routine leaves the intermediate with the alignments the
\* destination is held to, or the destination is not held to any
IntermediateAsImposed ==
    /\ call.pre.colConstrained => call.filt.rowAlign = call.pre.colAlign
    /\ call.pre.rowConstrained => call.filt.colAlign = call.pre.rowAlign

\* every process holds whole columns of the intermediate of the partial
\* sum (the extents of C25)
WholeColumnsSummed ==
    call.op = "TransposePartialColSumScatterFrom" =>
        Stride(call.pre.dist[2], call.pre.grid) = 1 \/ CallA.height = 0

\* where the source has the alignments the destination is held to, the
\* routines leave the alignments as claimed and the transposed result
TransposeFromOfAligned ==
    (TransposeFromCalled /\ IntermediateAsImposed /\ WholeColumnsSummed) =>
        /\ CallRan
        /\ call.pre.colConstrained => this.colAlign = call.pre.colAlign
        /\ call.pre.rowConstrained => this.rowAlign = call.pre.rowAlign
        /\ ~call.pre.colConstrained => this.colAlign = call.filt.rowAlign
        /\ ~call.pre.rowConstrained => this.rowAlign = call.filt.colAlign
        /\ HoldsTransposedResult

\* an unconstrained destination took both alignments from the intermediate
\* and the conjugated sum over several processes
TransposedFromMade ==
    /\ TransposeFromCalled
    /\ SumScatterFromCalled
    /\ ~call.pre.colConstrained /\ ~call.pre.rowConstrained
    /\ this.rowAlign = call.filt.colAlign /\ this.rowAlign # call.pre.rowAlign
    /\ call.args.conjugate /\ call.args.complex
    /\ CallRan
    /\ \E p \in Procs(this.grid) :
         /\ Cardinality(ResultOver(p)) > 1
         /\ \E ab \in DOMAIN this.local[p].e : this.local[p].e[ab] # 0

\* the distributed sparse EN ran
DistSparseENRan == ENRan /\ kernel.kind = "distSparse"

ENProcs == 0 .. (kernel.commSize - 1)

\* the entries with index i in the receive buffers, each with its receiver
ReceivedFor(i) ==
    UNION { { <<q, t>> : t \in { u \in kernel.received[q] : u.index = i } } : q \in ENProcs }

\* the sum of the counts of all processes
TotalCount(counts) ==
    SumOver([q \in ENProcs |-> SumOver(counts[q], 0, kernel.commSize)], 0, kernel.commSize)

\* the entries process q packed for d are sendCounts[d] many and fill the
\* segment of d in sendBuf, one slot each
SegmentFilled(q, d) ==
    LET mine == { t \in kernel.sent[q] : t.owner = d }
        off  == SumOver(kernel.sendCounts[q], 0, d)
    IN  /\ Cardinality(mine) = kernel.sendCounts[q][d]
        /\ { t.slot : t \in mine } = off .. (off + kernel.sendCounts[q][d] - 1)

\* C28: in the distributed sparse EN the exchange that forms x := u - v
\* delivers to the owner of row i of x, for every i < n, exactly the two
\* contributions xHat(i) and -xHat(i+n), so that x(i) = xHat(i) - xHat(i+n);
\* no row i >= 2n of xHat is sent, the entries packed for a destination are
\* sendCounts many and stay in its segment of sendBuf, and as much is
\* received as is sent.
C28_ExchangeFormsUMinusV ==
    DistSparseENRan =>
        /\ \A i \in 0 .. (kernel.n - 1) :
             /\ Cardinality(ReceivedFor(i)) = 2
             /\ \A qt \in ReceivedFor(i) :
                  qt[1] = MultiVecRowOwner(kernel.n, kernel.commSize, i)
             /\ { <<qt[2].row, qt[2].value>> : qt \in ReceivedFor(i) } =
                  { <<i, kernel.xHat.e[<<i, 0>>]>>,
                    <<i + kernel.n, -kernel.xHat.e[<<i + kernel.n, 0>>]>> }
             /\ kernel.x.e[<<i, 0>>] =
                  kernel.xHat.e[<<i, 0>>] - kernel.xHat.e[<<i + kernel.n, 0>>]
        /\ kernel.x.h = kernel.n
        /\ \A q \in ENProcs : \A t \in kernel.sent[q] : t.row < 2 * kernel.n
        /\ \A q \in ENProcs, d \in ENProcs : SegmentFilled(q, d)
        /\ TotalCount(kernel.recvCounts) = TotalCount(kernel.sendCounts)
        /\ \A q \in ENProcs :
             Cardinality(kernel.received[q]) = SumOver(kernel.recvCounts[q], 0, kernel.commSize)

\* two processes exchanged: each sent to both, the second held rows of
\* xHat at and beyond 2n that it did not send, and x has a nonzero entry
C28_BothSentToBoth ==
    /\ DistSparseENRan
    /\ kernel.commSize = 2 /\ kernel.n = 2 /\ kernel.m > 0
    /\ \A q \in ENProcs, d \in ENProcs : kernel.sendCounts[q][d] = 1
    /\ \E q \in ENProcs : \E t \in kernel.received[q] : t.from # q
    /\ kernel.x.e[<<0, 0>>] = -1 /\ kernel.x.e[<<1, 0>>] = 1

\* G as the header comment has it: 2n x (2n+m), -1 on its diagonal
HeaderG ==
    [h |-> 2 * kernel.n, w |-> 2 * kernel.n + kernel.m,
     e |-> [ij \in Idx(2 * kernel.n, 2 * kernel.n + kernel.m) |->
              IF ij[1] = ij[2] THEN -1 ELSE 0]]

\* C29: in every EN variant G is 2n x (2n+m) with G(e,e) = -1 for every
\* e < 2n and zeros elsewhere, for all m and n; the sparse variant queues
\* neither fewer than 2n diagonal entries nor an entry of row >= 2n.
C29_GIsMinusIdentity ==
    ENRan =>
        /\ kernel.G = HeaderG
        /\ kernel.gQueued = 2 * kernel.n
        /\ kernel.out = "ok"

\* the sparse variant, handed fewer rows than columns, left a zero on the
\* diagonal of G
C29_SparseLeftZeroOnDiagonal ==
    /\ ENRan
    /\ kernel.kind = "sparse"
    /\ kernel.m < kernel.n
    /\ kernel.gQueued < 2 * kernel.n
    /\ kernel.G.e[<<2 * kernel.m, 2 * kernel.m>>] = 0

\* the sparse variant, handed more rows than columns, queued an update for
\* a row G does not have
SparseQueuedBeyondG ==
    /\ ENRan
    /\ kernel.kind = "sparse"
    /\ kernel.m > kernel.n
    /\ kernel.gQueued > 2 * kernel.n
    /\ kernel.out = "undefined"

\* every other variant, and the sparse one with m = n, builds the header's G
GOfTheOtherVariants ==
    (ENRan /\ (kernel.kind # "sparse" \/ kernel.m = kernel.n)) =>
        /\ kernel.G = HeaderG
        /\ kernel.gQueued = 2 * kernel.n
        /\ kernel.out = "ok"

====
